---- MODULE Spec2Model ----
(***************************************************************************)
(* product-sync: the canonical product model and the Shopify, WooCommerce  *)
(* and eBay adapters (fromPlatform / toPlatform), the convert() helper and *)
(* the eBay SKU codec; and the platform clients that reconcile a batch of   *)
(* platform records with a store (ShopifyClient.syncProducts,              *)
(* WooCommerceClient.createProduct).                                       *)
(*                                                                         *)
(* Encoding of JavaScript values                                           *)
(*   string            a Text: a sequence of tokens.  Ch(c) is an ordinary *)
(*                     lexeme, SepTok the 7 characters "::meta=", JsonTok  *)
(*                     the JSON text of a payload that holds no separator, *)
(*                     FragTok(p, i) the i-th piece of the JSON text of a  *)
(*                     payload p cut at the separators inside its strings. *)
(*   T | undefined,    an option: None (<<>>) or Some(x) (<<x>>).          *)
(*   T | null                                                              *)
(*   PlatformMeta      a function from a subset of the platform names to   *)
(*                     sub-objects; {} is EmptyMeta.                       *)
(*   price strings     sequences of one-character strings ("10.00").       *)
(* Fields of the records that none of the properties below reads           *)
(* (description, images, tags, productType, shipping and tax flags) are    *)
(* projected away.                                                         *)
(***************************************************************************)
EXTENDS Integers, Sequences, FiniteSets, TLC

VARIABLES
  canon,   \* the canonical product the caller holds: None or Some(product)
  wire,    \* the platform record last written or received: None or Some([plat, rec])
  hist,    \* the canonical products in the order they came into being
  trace,   \* the operations performed so far, with their outcome
  uuid,    \* the number of identifiers uuidv4() has generated
  products,    \* the platform records handed to the client call
  remote,      \* the variants the store holds, by SKU
  locationGid, \* ShopifyClient's location id: None when not configured
  calls,       \* the requests the client has sent, in the order sent
  open,        \* the positions in calls of the requests not answered yet
  tasks,       \* one promise per product of the batch
  failures,    \* the products whose promise was rejected, in the order of rejection
  rejection,   \* the product whose failure the client call rejected with: None or Some(p), Some(0) for the lookup
  pc           \* where the client call stands

adapterVars == <<canon, wire, hist, trace, uuid>>

clientVars == <<products, remote, locationGid, calls, open, tasks, failures, rejection, pc>>

vars == <<canon, wire, hist, trace, uuid, products, remote, locationGid, calls, open, tasks, failures, rejection, pc>>

\* no client call is under way
ClientIdle ==
  /\ products = <<>>
  /\ remote = <<>>
  /\ locationGid = <<>>
  /\ calls = <<>>
  /\ open = {}
  /\ tasks = <<>>
  /\ failures = <<>>
  /\ rejection = <<>>
  /\ pc = "idle"

\* no adapter call is under way
AdapterIdle ==
  /\ canon = <<>>
  /\ wire = <<>>
  /\ hist = <<>>
  /\ trace = <<>>
  /\ uuid = 0

-----------------------------------------------------------------------------
(* Bounds of the model                                                     *)

MaxVariants == 2

MaxSteps == 6

MaxWooSteps == 4

MaxToSteps == 3

MaxProducts == 2

MaxSyncVariants == 2

-----------------------------------------------------------------------------
(* Options, texts                                                          *)

None == <<>>

Some(x) == <<x>>

IsSome(o) == o # <<>>

Val(o) == o[1]

Ch(c) == [k |-> "ch", c |-> c]

\* const META_SEPARATOR = "::meta="
SepTok == [k |-> "sep"]

META_SEPARATOR == <<SepTok>>

JsonTok(p) == [k |-> "json", p |-> p]

FragTok(p, i) == [k |-> "frag", p |-> p, i |-> i]

Str(c) == <<Ch(c)>>

EmptyStr == <<>>

EmptyMeta == [p \in {} |-> <<>>]

\* { ...a, ...b }: the keys of b win
Spread(a, b) == [p \in (DOMAIN a) \cup (DOMAIN b) |-> IF p \in DOMAIN b THEN b[p] ELSE a[p]]

\* m?.[p]
Sub(m, p) == IF p \in DOMAIN m THEN Some(m[p]) ELSE None

\* m?.[p]?.[f], for a field f that holds an option
SubField(m, p, f) == IF p \in DOMAIN m /\ f \in DOMAIN m[p] THEN m[p][f] ELSE None

\* m?.[p]?.[f], for a field f that holds a plain value
SubPlain(m, p, f) == IF p \in DOMAIN m /\ f \in DOMAIN m[p] THEN Some(m[p][f]) ELSE None

Min(S) == CHOOSE n \in S : \A m \in S : n <= m

-----------------------------------------------------------------------------
(* Numbers and their decimal strings                                       *)

\* parseFloat of a string with no leading digit
NaN == 0 - 1

DigitChar == <<"0", "1", "2", "3", "4", "5", "6", "7", "8", "9">>

IsDigit(c) == \E d \in 1..10 : DigitChar[d] = c

DigitVal(c) == (CHOOSE d \in 1..10 : DigitChar[d] = c) - 1

RECURSIVE NumToString(_)
\* Number.prototype.toString for the values of the model
NumToString(n) ==
  IF n = NaN THEN <<"N", "a", "N">>
  ELSE IF n < 10 THEN <<DigitChar[n + 1]>>
  ELSE NumToString(n \div 10) \o <<DigitChar[(n % 10) + 1]>>

RECURSIVE DigitsValue(_, _)
DigitsValue(s, acc) ==
  IF s = <<>> \/ ~IsDigit(Head(s)) THEN acc
  ELSE DigitsValue(Tail(s), acc * 10 + DigitVal(Head(s)))

\* parseFloat: the longest numeric prefix; the price strings of the model
\* have a fraction of zeros only, so the value is that of the integer part
ParseFloat(s) ==
  IF s = <<>> \/ ~IsDigit(Head(s)) THEN NaN ELSE DigitsValue(s, 0)

\* truthiness of a number, of a string
TruthyNum(n) == n # 0 /\ n # NaN

TruthyStr(s) == s # <<>>

-----------------------------------------------------------------------------
(* JSON.stringify / JSON.parse of the eBay payload {canonicalId, title,    *)
(* meta}                                                                   *)

RECURSIVE SepIn(_)
\* number of occurrences of "::meta=" in a text
SepIn(t) == IF t = <<>> THEN 0 ELSE (IF Head(t).k = "sep" THEN 1 ELSE 0) + SepIn(Tail(t))

\* the strings held by a meta map
MetaTexts(m) ==
  (IF IsSome(SubPlain(m, "shopify", "id")) THEN <<m["shopify"]["id"]>> ELSE <<>>)
  \o (IF IsSome(SubField(m, "woo", "parentSku")) THEN <<Val(m["woo"]["parentSku"])>> ELSE <<>>)
  \o (IF IsSome(SubPlain(m, "ebay", "id")) THEN <<m["ebay"]["id"]>> ELSE <<>>)
  \o (IF IsSome(SubPlain(m, "ebay", "sku")) THEN <<m["ebay"]["sku"]>> ELSE <<>>)

RECURSIVE SumSep(_)
SumSep(ts) == IF ts = <<>> THEN 0 ELSE SepIn(Head(ts)) + SumSep(Tail(ts))

\* occurrences of "::meta=" in the JSON text of a payload: JSON.stringify
\* copies the characters of the separator verbatim into string literals
SepCount(p) == SepIn(p.canonicalId) + SepIn(p.title) + SumSep(MetaTexts(p.meta))

\* JSON.stringify(metaPayload) as a text
JsonStringify(p) ==
  LET n == SepCount(p) IN
  IF n = 0 THEN <<JsonTok(p)>>
  ELSE [i \in 1..(2 * n + 1) |-> IF i % 2 = 1 THEN FragTok(p, (i - 1) \div 2) ELSE SepTok]

\* JSON.parse: the text of a whole object gives the object back, the
\* lexemes null / 1 / true give a primitive, anything else (a fragment of
\* an object text included) is a SyntaxError
JsonParse(t) ==
  IF Len(t) = 1 /\ t[1].k = "json"
    THEN [ok |-> TRUE, kind |-> "object", canonicalId |-> Some(t[1].p.canonicalId),
          title |-> Some(t[1].p.title), meta |-> Some(t[1].p.meta)]
  ELSE IF t = Str("null") THEN [ok |-> TRUE, kind |-> "null", canonicalId |-> None, title |-> None, meta |-> None]
  ELSE IF t \in {Str("1"), Str("true")}
    THEN [ok |-> TRUE, kind |-> "primitive", canonicalId |-> None, title |-> None, meta |-> None]
  ELSE [ok |-> FALSE, kind |-> "error", canonicalId |-> None, title |-> None, meta |-> None]

\* restoredMeta: {}
EmptyObject == [ok |-> TRUE, kind |-> "object", canonicalId |-> None, title |-> None, meta |-> None]

-----------------------------------------------------------------------------
(* String.prototype.includes / split                                       *)

Includes(t) == \E i \in 1..Len(t) : t[i].k = "sep"

SepPositions(t) == {i \in 1..Len(t) : t[i].k = "sep"}

\* ebaySku.split(META_SEPARATOR)[0]
SplitPart0(t) == SubSeq(t, 1, Min(SepPositions(t)) - 1)

\* ebaySku.split(META_SEPARATOR)[1]: split cuts at EVERY occurrence, so this
\* is the text between the first and the second separator
SplitPart1(t) ==
  LET first == Min(SepPositions(t))
      rest  == {i \in SepPositions(t) : i > first}
      stop  == IF rest = {} THEN Len(t) + 1 ELSE Min(rest)
  IN SubSeq(t, first + 1, stop - 1)

\* EbayAdapter.parseSku
parseSku(ebaySku) ==
  IF Includes(ebaySku)
    THEN LET parsed == JsonParse(SplitPart1(ebaySku)) IN
         IF parsed.ok THEN [originalSku |-> SplitPart0(ebaySku), restoredMeta |-> parsed]
         ELSE [originalSku |-> SplitPart0(ebaySku), restoredMeta |-> EmptyObject]
  ELSE [originalSku |-> ebaySku, restoredMeta |-> EmptyObject]

-----------------------------------------------------------------------------
(* Results of the adapter operations                                       *)

Ok(x) == [kind |-> "ok", v |-> x]

\* return null: the SKIP value of fromPlatform
Skip == [kind |-> "skip"]

\* an uncaught TypeError
Throw == [kind |-> "throw"]

\* uuidv4(): the n-th identifier generated, different from every other text
UuidTok(n) == [k |-> "uuid", n |-> n]

uuidv4(n) == <<UuidTok(n)>>

\* a || b || c on strings
OrStr(a, b) == IF TruthyStr(a) THEN a ELSE b

\* x?.toString() || y, for an optional string x
OptOrStr(o, y) == IF IsSome(o) /\ TruthyStr(Val(o)) THEN Val(o) ELSE y

\* title.split(' / '): the pieces between the " / " lexemes
RECURSIVE SplitTitle(_, _)
SplitTitle(t, cur) ==
  IF t = <<>> THEN <<cur>>
  ELSE IF Head(t) = Ch(" / ") THEN <<cur>> \o SplitTitle(Tail(t), <<>>)
  ELSE SplitTitle(Tail(t), Append(cur, Head(t)))

RECURSIVE JoinTitle(_)
\* parts.join(' / ')
JoinTitle(parts) ==
  IF parts = <<>> THEN <<>>
  ELSE IF Len(parts) = 1 THEN parts[1]
  ELSE parts[1] \o <<Ch(" / ")>> \o JoinTitle(Tail(parts))

-----------------------------------------------------------------------------
(* ShopifyAdapter                                                          *)

\* v[`option${i}`]
ShopifyOption(v, i) == IF i = 1 THEN v.option1 ELSE IF i = 2 THEN v.option2 ELSE v.option3

RECURSIVE ShopifyAttributes(_, _, _)
\* the loop for (let i = 1; i <= 3; i++) of fromPlatform
ShopifyAttributes(v, options, i) ==
  IF i > 3 THEN <<>>
  ELSE LET o == ShopifyOption(v, i)
           name == IF IsSome(options) /\ i <= Len(Val(options)) /\ TruthyStr(Val(options)[i].name)
                     THEN Val(options)[i].name ELSE Str("Option")
       IN (IF IsSome(o) /\ TruthyStr(Val(o)) THEN <<[name |-> name, value |-> Val(o)]>> ELSE <<>>)
          \o ShopifyAttributes(v, options, i + 1)

ShopifyFromVariant(product, v, id) ==
  [canonicalId |-> id,
   title |-> v.title,
   price |-> ParseFloat(v.price),
   compareAtPrice |-> IF IsSome(v.compare_at_price) /\ TruthyStr(Val(v.compare_at_price))
                        THEN Some(ParseFloat(Val(v.compare_at_price))) ELSE None,
   sku |-> v.sku,
   attributes |-> Some(ShopifyAttributes(v, product.options, 1)),
   inventory |-> Some(v.inventory_quantity),
   manageStock |-> None,
   meta |-> [shopify |-> [id |-> v.id]]]

\* ShopifyAdapter.fromPlatform; u is the number of identifiers generated so far
ShopifyFromPlatform(product, u) ==
  Ok([id |-> product.id,
      title |-> product.title,
      status |-> product.status,
      options |-> product.options,
      meta |-> [shopify |-> [id |-> product.id]],
      variants |-> [i \in 1..Len(product.variants) |->
                      ShopifyFromVariant(product, product.variants[i], uuidv4(u + i))]])

\* optionValues[i] || options?.[i]?.values[0] || null
ShopifySlot(optionValues, options, i) ==
  IF i <= Len(optionValues) /\ TruthyStr(optionValues[i]) THEN Some(optionValues[i])
  ELSE IF IsSome(options) /\ i <= Len(Val(options)) /\ Len(Val(options)[i].values) > 0
            /\ TruthyStr(Val(options)[i].values[1])
    THEN Some(Val(options)[i].values[1])
  ELSE None

\* an untracked inventory written as 1
ShopifyInventoryQuantityOne(v) == IF IsSome(v.inventory) THEN Val(v.inventory) ELSE 1

\* v.inventory ?? 0
ShopifyInventoryQuantity(v) == IF IsSome(v.inventory) THEN Val(v.inventory) ELSE 0

ShopifyToVariant(product, v) ==
  LET optionValues == SplitTitle(v.title, <<>>) IN
  [id |-> OptOrStr(SubPlain(v.meta, "shopify", "id"), EmptyStr),
   title |-> v.title,
   price |-> NumToString(v.price),
   compare_at_price |-> IF IsSome(v.compareAtPrice) THEN Some(NumToString(Val(v.compareAtPrice))) ELSE None,
   sku |-> v.sku,
   inventory_quantity |-> ShopifyInventoryQuantity(v),
   inventory_management |-> IF v.manageStock = Some(TRUE) THEN Some("shopify") ELSE None,
   option1 |-> ShopifySlot(optionValues, product.options, 1),
   option2 |-> ShopifySlot(optionValues, product.options, 2),
   option3 |-> ShopifySlot(optionValues, product.options, 3)]

\* ShopifyAdapter.toPlatform
ShopifyToPlatform(product) ==
  Ok([id |-> OptOrStr(SubPlain(product.meta, "shopify", "id"), OrStr(product.id, EmptyStr)),
      title |-> product.title,
      options |-> product.options,
      status |-> Some(IF product.status = Some("publish") THEN "active" ELSE "draft"),
      variants |-> [i \in 1..Len(product.variants) |-> ShopifyToVariant(product, product.variants[i])]])

-----------------------------------------------------------------------------
(* WooAdapter                                                              *)

\* meta_data?.find(m => m.key === key)?.value
FindMeta(meta_data, key) ==
  LET hits == {i \in 1..Len(meta_data) : meta_data[i].key = key} IN
  IF hits = {} THEN None ELSE Some(meta_data[Min(hits)].value)

\* the decimal digits of a number as a text
NumText(n) == [i \in 1..Len(NumToString(n)) |-> Ch(NumToString(n)[i])]

\* `woo-${product.id}`
WooFallbackId(id) == <<Ch("woo-")>> \o (IF IsSome(id) THEN NumText(Val(id)) ELSE Str("undefined"))

\* mutant: an unmanaged quantity reads as 1 whatever the stock status
WooInventoryAnyStatus(stock_quantity, stock_status) ==
  IF stock_quantity = None THEN Some(1) ELSE stock_quantity

\* stock inference of fromPlatform: null and 'instock' reads as 1
WooInventory(stock_quantity, stock_status) ==
  IF stock_quantity = None /\ stock_status = "instock" THEN Some(1) ELSE stock_quantity

\* parseFloat(x.sale_price || x.regular_price)
WooPrice(x) == ParseFloat(IF TruthyStr(x.sale_price) THEN x.sale_price ELSE x.regular_price)

\* x.sale_price ? parseFloat(x.regular_price) : undefined
WooCompareAtPrice(x) == IF TruthyStr(x.sale_price) THEN Some(ParseFloat(x.regular_price)) ELSE None

WooFromSimple(product) ==
  [canonicalId |-> OptOrStr(product.sku, WooFallbackId(product.id)),
   title |-> Str("Default Title"),
   price |-> WooPrice(product),
   compareAtPrice |-> WooCompareAtPrice(product),
   sku |-> IF IsSome(product.sku) THEN Val(product.sku) ELSE EmptyStr,
   attributes |-> None,
   inventory |-> WooInventory(product.stock_quantity, product.stock_status),
   manageStock |-> None,
   meta |-> [woo |-> [id |-> product.id]]]

WooFromVariation(v) ==
  LET restoredVariantMeta == LET f == FindMeta(v.meta_data, "_canonicalVariantMeta") IN
                             IF IsSome(f) THEN Val(f) ELSE EmptyMeta
  IN
  [canonicalId |-> OptOrStr(FindMeta(v.meta_data, "_canonicalId"), v.sku),
   title |-> JoinTitle([i \in 1..Len(v.attributes) |-> v.attributes[i].option]),
   price |-> WooPrice(v),
   compareAtPrice |-> WooCompareAtPrice(v),
   sku |-> v.sku,
   attributes |-> None,
   inventory |-> WooInventory(v.stock_quantity, v.stock_status),
   manageStock |-> Some(v.manage_stock),
   meta |-> Spread(restoredVariantMeta, [woo |-> [id |-> v.id]])]

\* product.attributes?.filter(attr => attr.variation).map(...)
WooOptions(attributes) ==
  IF attributes = None THEN None
  ELSE LET keep == SelectSeq(Val(attributes), LAMBDA a : a.variation) IN
       Some([i \in 1..Len(keep) |-> [name |-> keep[i].name, values |-> keep[i].options]])

\* mutant: only grouped products are skipped
WooUnsupportedGrouped(product) == product.type = "grouped"

\* product.type === 'grouped' || product.type === 'external'
WooUnsupported(product) == product.type = "grouped" \/ product.type = "external"

\* mutant: the product type is not persisted
WooProductMetaNoType(product, restoredMeta) ==
  Spread(restoredMeta, [woo |-> [id |-> product.id, parentSku |-> None]])

\* meta: { ...restoredMeta, woo: { id, productType, parentSku } }
WooProductMeta(product, restoredMeta) ==
  Spread(restoredMeta,
         [woo |-> [id |-> product.id,
                   productType |-> product.type,
                   parentSku |-> IF product.type = "variable" THEN product.sku ELSE None]])

\* product.variations || []
WooVariationsOf(product) == IF "variations" \in DOMAIN product THEN product.variations ELSE <<>>

\* WooAdapter.fromPlatform
WooFromPlatform(product) ==
  IF WooUnsupported(product) THEN Skip
  ELSE
    LET restoredMeta == LET f == FindMeta(product.meta_data, "_canonicalMeta") IN
                        IF IsSome(f) THEN Val(f) ELSE EmptyMeta
        variants == IF product.type = "simple" THEN <<WooFromSimple(product)>>
                    ELSE [i \in 1..Len(WooVariationsOf(product)) |-> WooFromVariation(WooVariationsOf(product)[i])]
        shopifyId == SubPlain(restoredMeta, "shopify", "id")
    IN
    \* product.id.toString() of an undefined id is a TypeError
    IF ~(IsSome(shopifyId) /\ TruthyStr(Val(shopifyId))) /\ product.id = None THEN Throw
    ELSE
      Ok([id |-> OptOrStr(shopifyId, IF IsSome(product.id) THEN NumText(Val(product.id)) ELSE EmptyStr),
          title |-> product.name,
          status |-> Some(product.status),
          options |-> WooOptions(product.attributes),
          meta |-> WooProductMeta(product, restoredMeta),
          variants |-> variants])

\* (x.inventory ?? 0) > 0 || !(x.manageStock) ? 'instock' : 'outofstock'
WooStockStatus(v) ==
  IF (IF IsSome(v.inventory) THEN Val(v.inventory) ELSE 0) > 0 \/ ~(v.manageStock = Some(TRUE))
    THEN "instock" ELSE "outofstock"

\* (x.compareAtPrice || x.price).toString()
WooRegularPrice(v) ==
  NumToString(IF IsSome(v.compareAtPrice) /\ TruthyNum(Val(v.compareAtPrice)) THEN Val(v.compareAtPrice) ELSE v.price)

\* x.compareAtPrice ? x.price.toString() : ''
WooSalePrice(v) ==
  IF IsSome(v.compareAtPrice) /\ TruthyNum(Val(v.compareAtPrice)) THEN NumToString(v.price) ELSE <<>>

WooToVariation(v) ==
  [id |-> SubField(v.meta, "woo", "id"),
   sku |-> v.sku,
   regular_price |-> WooRegularPrice(v),
   sale_price |-> WooSalePrice(v),
   manage_stock |-> IF IsSome(v.manageStock) THEN Val(v.manageStock) ELSE FALSE,
   stock_quantity |-> v.inventory,
   stock_status |-> WooStockStatus(v),
   attributes |-> IF IsSome(v.attributes)
                    THEN [i \in 1..Len(Val(v.attributes)) |->
                            [name |-> Val(v.attributes)[i].name, option |-> Val(v.attributes)[i].value]]
                    ELSE <<>>,
   meta_data |-> <<[key |-> "_canonicalId", value |-> v.canonicalId],
                   [key |-> "_canonicalVariantMeta", value |-> v.meta]>>]

\* mutant: the shape decided by the number of variants alone
WooIsVariableByCount(product) == Len(product.variants) > 1

\* const isVariable = product.variants.length > 1 || mustBeVariable
WooIsVariable(product) ==
  Len(product.variants) > 1 \/ SubPlain(product.meta, "woo", "productType") = Some("variable")

\* a status that alternates from one call to the next
WooStatusAlternating(product) == IF Len(trace) % 2 = 0 THEN "publish" ELSE "draft"

\* product.status === 'active' ? 'publish' : 'draft'
WooStatus(product) == IF product.status = Some("active") THEN "publish" ELSE "draft"

\* WooAdapter.toPlatform
WooToPlatform(product) ==
  LET productMeta == [key |-> "_canonicalMeta", value |-> product.meta] IN
  IF ~WooIsVariable(product)
    THEN \* const variant = product.variants[0]; variant.sku of undefined is a TypeError
         IF Len(product.variants) = 0 THEN Throw
         ELSE LET variant == product.variants[1] IN
              Ok([type |-> "simple",
                  id |-> SubField(product.meta, "woo", "id"),
                  name |-> product.title,
                  status |-> WooStatus(product),
                  meta_data |-> <<productMeta>>,
                  attributes |-> None,
                  sku |-> Some(variant.sku),
                  regular_price |-> WooRegularPrice(variant),
                  sale_price |-> WooSalePrice(variant),
                  stock_quantity |-> variant.inventory,
                  stock_status |-> WooStockStatus(variant)])
  ELSE
    LET variations == [i \in 1..Len(product.variants) |-> WooToVariation(product.variants[i])] IN
    Ok([type |-> "variable",
        id |-> SubField(product.meta, "woo", "id"),
        name |-> product.title,
        status |-> WooStatus(product),
        meta_data |-> <<productMeta>>,
        sku |-> SubField(product.meta, "woo", "parentSku"),
        attributes |-> Some(IF IsSome(product.options)
                                THEN [i \in 1..Len(Val(product.options)) |->
                                        [name |-> Val(product.options)[i].name, variation |-> TRUE,
                                         options |-> Val(product.options)[i].values]]
                                ELSE <<>>),
        variations |-> variations,
        stock_status |-> IF \E i \in 1..Len(variations) : variations[i].stock_status = "instock"
                           THEN "instock" ELSE "outofstock"])

-----------------------------------------------------------------------------
(* EbayAdapter                                                             *)

RECURSIVE Dashify(_, _)
\* title.replace(/\s+/g, '-'): every run of blanks becomes one dash
Dashify(t, inBlank) ==
  IF t = <<>> THEN <<>>
  ELSE IF Head(t) = Ch(" ") THEN (IF inBlank THEN <<>> ELSE <<Ch("-")>>) \o Dashify(Tail(t), TRUE)
  ELSE <<Head(t)>> \o Dashify(Tail(t), FALSE)

\* the payload embedded in the SKU of an offer
EbayPayload(v) == [canonicalId |-> v.canonicalId, title |-> v.title, meta |-> v.meta]

\* `${v.sku}${META_SEPARATOR}${JSON.stringify(metaPayload)}`
EbayEncodeSku(v) == v.sku \o META_SEPARATOR \o JsonStringify(EbayPayload(v))

\* an offer under the plain SKU of the variant
EbayToOfferPlainSku(v) ==
  [sku |-> v.sku,
   price |-> NumToString(v.price),
   quantity |-> v.inventory]

EbayToOffer(v) ==
  [sku |-> EbayEncodeSku(v),
   price |-> NumToString(v.price),
   quantity |-> v.inventory]

\* EbayAdapter.toPlatform
EbayToPlatform(product) ==
  IF Len(product.variants) = 1
    THEN LET variant == product.variants[1] IN
         Ok([shape |-> "item",
             sku |-> variant.sku,
             condition |-> "NEW",
             title |-> product.title,
             quantity |-> variant.inventory])
  ELSE
    LET offers == [i \in 1..Len(product.variants) |-> EbayToOffer(product.variants[i])] IN
    Ok([shape |-> "group",
        inventoryItemGroupKey |-> OptOrStr(SubPlain(product.meta, "ebay", "id"),
                                           OrStr(product.id, Dashify(product.title, FALSE))),
        title |-> product.title,
        variantSKUs |-> [i \in 1..Len(offers) |-> offers[i].sku],
        offers |-> offers])

\* restoredMeta.meta || {}
RestoredMetaOf(rm) == IF IsSome(rm.meta) THEN Val(rm.meta) ELSE EmptyMeta

\* EbayAdapter.fromSimpleItem
EbayFromSimpleItem(item) ==
  LET parsed == parseSku(item.sku)
      rm == parsed.restoredMeta
  IN
  \* restoredMeta.canonicalId of null is a TypeError
  IF rm.kind = "null" THEN Throw
  ELSE
    Ok([id |-> item.sku,
        title |-> item.title,
        status |-> None,
        options |-> None,
        meta |-> Spread(RestoredMetaOf(rm), [ebay |-> [id |-> item.sku]]),
        variants |-> <<[canonicalId |-> OptOrStr(rm.canonicalId, parsed.originalSku),
                        title |-> OptOrStr(rm.title, Str("Default")),
                        price |-> 0,
                        compareAtPrice |-> None,
                        sku |-> parsed.originalSku,
                        attributes |-> None,
                        inventory |-> item.quantity,
                        manageStock |-> None,
                        meta |-> Spread(RestoredMetaOf(rm), [ebay |-> [sku |-> item.sku]])]>>])

EbayFromOffer(offer) ==
  LET parsed == parseSku(offer.sku)
      rm == parsed.restoredMeta
  IN
  [canonicalId |-> OptOrStr(rm.canonicalId, parsed.originalSku),
   title |-> OptOrStr(rm.title, Str("Title Not Found")),
   price |-> ParseFloat(offer.price),
   compareAtPrice |-> None,
   sku |-> parsed.originalSku,
   attributes |-> None,
   inventory |-> offer.quantity,
   manageStock |-> None,
   meta |-> Spread(RestoredMetaOf(rm), [ebay |-> [sku |-> offer.sku]])]

\* EbayAdapter.fromItemGroup
EbayFromItemGroup(group) ==
  IF \E i \in 1..Len(group.offers) : parseSku(group.offers[i].sku).restoredMeta.kind = "null"
    THEN Throw
  ELSE
    Ok([id |-> group.inventoryItemGroupKey,
        title |-> group.title,
        status |-> None,
        options |-> None,
        meta |-> [ebay |-> [id |-> group.inventoryItemGroupKey]],
        variants |-> [i \in 1..Len(group.offers) |-> EbayFromOffer(group.offers[i])]])

\* EbayAdapter.fromPlatform: 'inventoryItemGroupKey' in product
EbayFromPlatform(product) ==
  IF "inventoryItemGroupKey" \in DOMAIN product THEN EbayFromItemGroup(product)
  ELSE EbayFromSimpleItem(product)

-----------------------------------------------------------------------------
(* The adapters behind the Adapter interface, and convert()                *)

Platforms == {"shopify", "woo", "ebay"}

\* adapter.toPlatform(product)
toPlatform(a, product) ==
  IF a = "shopify" THEN ShopifyToPlatform(product)
  ELSE IF a = "woo" THEN WooToPlatform(product)
  ELSE EbayToPlatform(product)

\* adapter.fromPlatform(record); u is the number of uuids generated so far
fromPlatform(a, record, u) ==
  IF a = "shopify" THEN ShopifyFromPlatform(record, u)
  ELSE IF a = "woo" THEN WooFromPlatform(record)
  ELSE EbayFromPlatform(record)

\* convert(sourceProduct, fromAdapter, toAdapter): the canonical product read
\* and what is returned
convert(sourceProduct, fromA, toA, u) ==
  LET canonicalProduct == fromPlatform(fromA, sourceProduct, u) IN
  IF canonicalProduct.kind = "throw" THEN [read |-> canonicalProduct, called |-> FALSE, out |-> Throw]
  ELSE IF canonicalProduct.kind = "skip" THEN [read |-> canonicalProduct, called |-> FALSE, out |-> Skip]
  ELSE [read |-> canonicalProduct, called |-> TRUE, out |-> toPlatform(toA, canonicalProduct.v)]

-----------------------------------------------------------------------------
(* Inputs: canonical products and platform records                         *)

CidName == <<"c1", "c2", "c3", "c4">>

SkuName == <<"s1", "s2", "s3", "s4">>

ColorAttr == <<[name |-> Str("Color"), value |-> Str("Red")]>>

BaseVariant(i) ==
  [canonicalId |-> Str(CidName[i]), title |-> Str("Red"), price |-> 10 * i, compareAtPrice |-> None,
   sku |-> Str(SkuName[i]), attributes |-> Some(ColorAttr), inventory |-> Some(5), manageStock |-> None,
   meta |-> EmptyMeta]

\* the variants the first position of a product is drawn from
RichVariants(i) ==
  {[BaseVariant(i) EXCEPT !.inventory = inv, !.manageStock = ms] :
      inv \in {None, Some(0), Some(5)}, ms \in {None, Some(TRUE), Some(FALSE)}}
  \cup {[BaseVariant(i) EXCEPT !.compareAtPrice = Some(30)],
        [BaseVariant(i) EXCEPT !.sku = EmptyStr],
        [BaseVariant(i) EXCEPT !.title = <<Ch("Red"), Ch(" / "), Ch("M")>>, !.attributes = None],
        [BaseVariant(i) EXCEPT !.title = <<Ch("a"), SepTok, Ch("b")>>],
        [BaseVariant(i) EXCEPT !.meta = [shopify |-> [id |-> Str("v1")], woo |-> [id |-> Some(91)]]]}

\* the variants of the other positions
PlainVariants(i) ==
  {BaseVariant(i),
   [BaseVariant(i) EXCEPT !.inventory = None, !.meta = [shopify |-> [id |-> Str("v2")]]]}

VariantsAt(i) == IF i = 1 THEN RichVariants(i) ELSE PlainVariants(i)

RECURSIVE VariantLists(_)
\* the variant lists of length n
VariantLists(n) ==
  IF n = 0 THEN {<<>>}
  ELSE {Append(l, v) : l \in VariantLists(n - 1), v \in VariantsAt(n)}

ProductTitle == <<Ch("Cool"), Ch(" "), Ch("Shirt")>>

ColorOption == <<[name |-> Str("Color"), values |-> <<Str("Red"), Str("Blue")>>]>>

\* product-level status, options and meta of the input products
ProductFlavours ==
  {[status |-> None, options |-> None, meta |-> EmptyMeta],
   [status |-> Some("active"), options |-> Some(ColorOption), meta |-> [shopify |-> [id |-> Str("p1")]]],
   [status |-> Some("publish"), options |-> None,
    meta |-> [woo |-> [id |-> Some(85), productType |-> "variable", parentSku |-> Some(Str("parent"))]]],
   [status |-> Some("publish"), options |-> None,
    meta |-> [shopify |-> [id |-> Str("p1")],
              woo |-> [id |-> Some(85), productType |-> "simple", parentSku |-> None]]]}

CanonicalInputs ==
  {[id |-> Str("p1"), title |-> ProductTitle, status |-> f.status, options |-> f.options,
    meta |-> f.meta, variants |-> l] :
      f \in ProductFlavours, l \in UNION {VariantLists(n) : n \in 0..MaxVariants}}

ShopifyVariantInputs(i) ==
  {[id |-> Str("v1"), title |-> Str("Red"), price |-> <<"1", "0", ".", "0", "0">>, compare_at_price |-> None,
    sku |-> Str(SkuName[i]), inventory_quantity |-> q, inventory_management |-> None,
    option1 |-> Some(Str("Red")), option2 |-> None, option3 |-> None] : q \in {0, 5}}

RECURSIVE ShopifyVariantLists(_)
ShopifyVariantLists(n) ==
  IF n = 0 THEN {<<>>}
  ELSE {Append(l, v) : l \in ShopifyVariantLists(n - 1), v \in ShopifyVariantInputs(n)}

ShopifyInputs ==
  {[id |-> Str("p1"), title |-> ProductTitle, options |-> Some(ColorOption), status |-> Some("active"),
    variants |-> l] : l \in UNION {ShopifyVariantLists(n) : n \in 0..MaxVariants}}

ShopifyMeta == [shopify |-> [id |-> Str("p1")]]

WooSimpleInputs ==
  {[type |-> "simple", id |-> Some(85), name |-> ProductTitle, status |-> "publish",
    meta_data |-> md, attributes |-> Some(<<>>), sku |-> sku,
    regular_price |-> pr[1], sale_price |-> pr[2], stock_quantity |-> q, stock_status |-> st] :
      md \in {<<>>, <<[key |-> "_canonicalMeta", value |-> ShopifyMeta]>>},
      sku \in {Some(Str("s1")), Some(EmptyStr)},
      pr \in {<< <<"1", "0", ".", "0", "0">>, <<>> >>, << <<"2", "0">>, <<"1", "0">> >>},
      q \in {None, Some(0), Some(5)},
      st \in {"instock", "outofstock", "onbackorder"}}

WooVariationBase(i) ==
  [id |-> Some(90 + i), sku |-> Str(SkuName[i]), regular_price |-> <<"2", "0">>, sale_price |-> <<>>,
   manage_stock |-> FALSE, stock_quantity |-> None, stock_status |-> "instock",
   attributes |-> <<[name |-> Str("Color"), option |-> Str("Red")]>>,
   meta_data |-> <<>>]

WooVariationInputs(i) ==
  IF i = 1
    THEN {[WooVariationBase(i) EXCEPT !.manage_stock = ms, !.stock_quantity = q, !.stock_status = st] :
            ms \in BOOLEAN, q \in {None, Some(0), Some(5)}, st \in {"instock", "outofstock"}}
    ELSE {WooVariationBase(i),
          [WooVariationBase(i) EXCEPT !.meta_data =
             <<[key |-> "_canonicalId", value |-> Str(CidName[i])],
               [key |-> "_canonicalVariantMeta", value |-> [shopify |-> [id |-> Str("v2")]]]>>]}

RECURSIVE WooVariationLists(_)
WooVariationLists(n) ==
  IF n = 0 THEN {<<>>}
  ELSE {Append(l, v) : l \in WooVariationLists(n - 1), v \in WooVariationInputs(n)}

WooVariableInputs ==
  {[type |-> "variable", id |-> Some(85), name |-> ProductTitle, status |-> "publish",
    meta_data |-> <<>>, sku |-> Some(Str("parent")),
    attributes |-> Some(<<[name |-> Str("Color"), variation |-> TRUE, options |-> <<Str("Red")>>]>>),
    variations |-> l, stock_status |-> "instock"] :
      l \in UNION {WooVariationLists(n) : n \in 0..MaxVariants}}

\* records of the types the adapter does not convert
WooUnsupportedInputs ==
  {[type |-> t, id |-> Some(85), name |-> ProductTitle, status |-> "publish", meta_data |-> <<>>,
    attributes |-> Some(<<>>), sku |-> Some(Str("s1")), stock_status |-> "instock"] :
      t \in {"grouped", "external"}}

SamplePayload == [canonicalId |-> Str("c1"), title |-> Str("Red"), meta |-> [shopify |-> [id |-> Str("v1")]]]

\* SKUs as eBay may hold them: plain, with an embedded payload, with a
\* suffix that is not JSON, with a suffix that is JSON but no object
EbaySkuInputs ==
  {Str("s1"),
   Str("s1") \o META_SEPARATOR \o JsonStringify(SamplePayload),
   Str("s1") \o META_SEPARATOR \o Str("{cut"),
   Str("s1") \o META_SEPARATOR \o Str("null"),
   Str("s1") \o META_SEPARATOR \o Str("1")}

EbayItemInputs ==
  {[shape |-> "item", sku |-> sku, condition |-> "NEW", title |-> ProductTitle, quantity |-> q] :
      sku \in EbaySkuInputs, q \in {None, Some(5)}}

EbayOfferInputs(i) ==
  IF i = 1 THEN {[sku |-> sku, price |-> <<"1", "0", ".", "0", "0">>, quantity |-> Some(5)] : sku \in EbaySkuInputs}
  ELSE {[sku |-> Str(SkuName[i]), price |-> <<"2", "0">>, quantity |-> None]}

RECURSIVE EbayOfferLists(_)
EbayOfferLists(n) ==
  IF n = 0 THEN {<<>>}
  ELSE {Append(l, o) : l \in EbayOfferLists(n - 1), o \in EbayOfferInputs(n)}

EbayGroupInputs ==
  {[shape |-> "group", inventoryItemGroupKey |-> Str("g1"), title |-> ProductTitle,
    variantSKUs |-> [i \in 1..Len(l) |-> l[i].sku], offers |-> l] :
      l \in UNION {EbayOfferLists(n) : n \in 0..MaxVariants}}

-----------------------------------------------------------------------------
(* The state machine: a caller holding a canonical product and a platform  *)
(* record, applying the adapters to them                                   *)

Last(q) == q[Len(q)]

\* the wire shape of a record: 'simple' / 'variable' / ... for WooCommerce,
\* item / group for eBay
WireShape(a, rec) ==
  IF a = "woo" THEN rec.type ELSE IF a = "ebay" THEN rec.shape ELSE "product"

Step(op, a, res, shape) == [op |-> op, a |-> a, res |-> res, shape |-> shape]

\* the record in wire has not been read yet
Pending == wire # None /\ (IF trace = <<>> THEN TRUE ELSE Last(trace).op = "to")

\* the caller starts from a canonical product ...
InitCanonical ==
  /\ canon \in {Some(p) : p \in CanonicalInputs}
  /\ wire = None
  /\ hist = <<Val(canon)>>

\* ... or from a record fetched from one of the platforms
InitShopify == canon = None /\ hist = <<>> /\ wire \in {Some([plat |-> "shopify", rec |-> r]) : r \in ShopifyInputs}

InitWooSimple == canon = None /\ hist = <<>> /\ wire \in {Some([plat |-> "woo", rec |-> r]) : r \in WooSimpleInputs}

InitWooVariable == canon = None /\ hist = <<>> /\ wire \in {Some([plat |-> "woo", rec |-> r]) : r \in WooVariableInputs}

InitWooUnsupported == canon = None /\ hist = <<>> /\ wire \in {Some([plat |-> "woo", rec |-> r]) : r \in WooUnsupportedInputs}

InitEbayItem == canon = None /\ hist = <<>> /\ wire \in {Some([plat |-> "ebay", rec |-> r]) : r \in EbayItemInputs}

InitEbayGroup == canon = None /\ hist = <<>> /\ wire \in {Some([plat |-> "ebay", rec |-> r]) : r \in EbayGroupInputs}

Init ==
  /\ trace = <<>>
  /\ uuid = 0
  /\ ClientIdle
  /\ \/ InitCanonical
     \/ InitShopify
     \/ InitWooSimple
     \/ InitWooVariable
     \/ InitWooUnsupported
     \/ InitEbayItem
     \/ InitEbayGroup

\* adapter a's toPlatform applied to the canonical product held
DoTo(a) ==
  /\ canon # None
  /\ LET r == toPlatform(a, Val(canon)) IN
     /\ wire' = IF r.kind = "ok" THEN Some([plat |-> a, rec |-> r.v]) ELSE None
     /\ trace' = Append(trace, Step("to", a, r.kind, IF r.kind = "ok" THEN WireShape(a, r.v) ELSE "none"))
  /\ UNCHANGED <<canon, hist, uuid>>
  /\ UNCHANGED clientVars

\* adapter a's fromPlatform applied to the record held
DoFrom(a) ==
  /\ wire # None
  /\ Val(wire).plat = a
  /\ LET r == fromPlatform(a, Val(wire).rec, uuid) IN
     /\ canon' = IF r.kind = "ok" THEN Some(r.v) ELSE None
     /\ hist' = IF r.kind = "ok" THEN Append(hist, r.v) ELSE hist
     /\ uuid' = IF a = "shopify" THEN uuid + Len(Val(wire).rec.variants) ELSE uuid
     /\ trace' = Append(trace, Step("from", a, r.kind, WireShape(a, Val(wire).rec)))
  /\ UNCHANGED wire
  /\ UNCHANGED clientVars

WriteShopify == ~Pending /\ Len(trace) < MaxSteps /\ DoTo("shopify")

WriteWoo == ~Pending /\ Len(trace) < MaxSteps /\ DoTo("woo")

WriteEbay == ~Pending /\ Len(trace) < MaxSteps /\ DoTo("ebay")

ReadShopify == Pending /\ Len(trace) < MaxSteps /\ DoFrom("shopify")

ReadWoo == Pending /\ Len(trace) < MaxSteps /\ DoFrom("woo")

ReadEbay == Pending /\ Len(trace) < MaxSteps /\ DoFrom("ebay")

\* convert(record, fromAdapter, toAdapter) applied to an input record
Convert ==
  /\ Pending
  /\ trace = <<>>
  /\ \E toA \in Platforms :
       LET fromA == Val(wire).plat
           c == convert(Val(wire).rec, fromA, toA, uuid)
       IN
       /\ canon' = IF c.read.kind = "ok" THEN Some(c.read.v) ELSE None
       /\ hist' = IF c.read.kind = "ok" THEN Append(hist, c.read.v) ELSE hist
       /\ uuid' = IF fromA = "shopify" THEN uuid + Len(Val(wire).rec.variants) ELSE uuid
       /\ wire' = IF c.out.kind = "ok" THEN Some([plat |-> toA, rec |-> c.out.v]) ELSE None
       /\ trace' = <<Step("convert", toA, c.out.kind, "none"),
                     Step("from", fromA, c.read.kind, WireShape(fromA, Val(wire).rec))>>
                   \o (IF c.called
                         THEN <<Step("to", toA, c.out.kind, IF c.out.kind = "ok" THEN WireShape(toA, c.out.v) ELSE "none")>>
                         ELSE <<>>)
  /\ UNCHANGED clientVars

Next ==
  \/ WriteShopify
  \/ WriteWoo
  \/ WriteEbay
  \/ ReadShopify
  \/ ReadWoo
  \/ ReadEbay
  \/ Convert

Spec == Init /\ [][Next]_vars

-----------------------------------------------------------------------------
(* WooCommerce only: reads, writes and removals of variants in any order   *)

\* the caller removes one variant from the canonical product
RemoveVariant ==
  /\ canon # None
  /\ Len(trace) < MaxWooSteps
  /\ \E i \in 1..Len(Val(canon).variants) :
       canon' = Some([Val(canon) EXCEPT !.variants =
                        SubSeq(Val(canon).variants, 1, i - 1)
                        \o SubSeq(Val(canon).variants, i + 1, Len(Val(canon).variants))])
  /\ trace' = Append(trace, Step("remove", "none", "ok", "none"))
  /\ UNCHANGED <<wire, hist, uuid>>
  /\ UNCHANGED clientVars

WooWrite == Len(trace) < MaxWooSteps /\ DoTo("woo")

WooRead == Len(trace) < MaxWooSteps /\ DoFrom("woo")

InitWoo ==
  /\ trace = <<>>
  /\ uuid = 0
  /\ ClientIdle
  /\ \/ InitCanonical
     \/ InitWooSimple
     \/ InitWooVariable
     \/ InitWooUnsupported

NextWoo ==
  \/ WooWrite
  \/ WooRead
  \/ RemoveVariant

SpecWoo == InitWoo /\ [][NextWoo]_vars

-----------------------------------------------------------------------------
(* toPlatform only: a caller that writes the product it holds to the       *)
(* platforms again and again                                               *)

ToShopify == Len(trace) < MaxToSteps /\ DoTo("shopify")

ToWoo == Len(trace) < MaxToSteps /\ DoTo("woo")

ToEbay == Len(trace) < MaxToSteps /\ DoTo("ebay")

InitTo ==
  /\ trace = <<>>
  /\ uuid = 0
  /\ ClientIdle
  /\ InitCanonical

NextTo ==
  \/ ToShopify
  \/ ToWoo
  \/ ToEbay

SpecTo == InitTo /\ [][NextTo]_vars

-----------------------------------------------------------------------------
(* Properties                                                              *)

\* what the round-trip test compares of a variant
VariantKey(v) == <<v.canonicalId, v.sku, v.price, v.inventory>>

KeySet(p) == {VariantKey(p.variants[i]) : i \in 1..Len(p.variants)}

KeySeq(p) == [i \in 1..Len(p.variants) |-> VariantKey(p.variants[i])]

\* step i of the chain X.to, X.from, Y.to, Y.from, X.to, X.from
ChainStep(i, X, Y) == [op |-> IF i % 2 = 1 THEN "to" ELSE "from", a |-> IF i \in {3, 4} THEN Y ELSE X]

\* the trace is the first steps of that chain, started from an input product
ChainPrefix(X, Y) ==
  /\ trace # <<>>
  /\ \A i \in 1..Len(trace) : trace[i].op = ChainStep(i, X, Y).op /\ trace[i].a = ChainStep(i, X, Y).a

\* C1: round-trip identity. For every canonical product P and ordered pair
\* (X, Y) of adapters, the product at the end of the chain X.to, X.from,
\* Y.to, Y.from, X.to, X.from has the same set of (canonicalId, sku, price,
\* inventory) as P.
C1_RoundTripIdentity ==
  \A X, Y \in Platforms :
    (ChainPrefix(X, Y) /\ Len(trace) = 6 /\ Last(trace).res = "ok") =>
      KeySet(Val(canon)) = KeySet(hist[1])

\* the trace is the first steps of A.from, A.to, A.from on an input record
LosslessPrefix(A) ==
  /\ trace # <<>>
  /\ Len(trace) <= 3
  /\ trace[1].res = "ok"
  /\ \A i \in 1..Len(trace) : trace[i].a = A /\ trace[i].op = (IF i = 2 THEN "to" ELSE "from")

\* C2: losslessness. For each adapter A and record R that A.fromPlatform
\* accepts, A.fromPlatform(A.toPlatform(A.fromPlatform(R))) has, variant by
\* variant, the canonicalId, sku, price and inventory of A.fromPlatform(R).
C2_Lossless ==
  \A A \in Platforms :
    LosslessPrefix(A) =>
      /\ Last(trace).res = "ok"
      /\ Len(trace) = 3 => KeySeq(hist[2]) = KeySeq(hist[1])

\* C3: a variant's canonicalId is never regenerated. Whatever adapters the
\* product has been through, each variant of the canonical product held
\* carries the canonicalId it had when it first was in canonical form.
C3_IdNeverRegenerated ==
  (canon # None /\ hist # <<>>) =>
    \A i \in 1..Len(Val(canon).variants) :
      i <= Len(hist[1].variants) => Val(canon).variants[i].canonicalId = hist[1].variants[i].canonicalId

\* the last operation was adapter a's toPlatform / fromPlatform, and it returned
LastTo(a) == trace # <<>> /\ Last(trace).op = "to" /\ Last(trace).a = a /\ Last(trace).res = "ok"

LastFrom(a) == trace # <<>> /\ Last(trace).op = "from" /\ Last(trace).a = a /\ Last(trace).res = "ok"

\* the product with other canonicalIds
Renamed(p) ==
  [p EXCEPT !.variants = [i \in 1..Len(p.variants) |-> [p.variants[i] EXCEPT !.canonicalId = Str("renamed")]]]

\* the identifiers and SKUs a platform record holds, as they are or encoded
PayloadIds(a, rec) ==
  IF a = "shopify"
    THEN {rec.id} \cup UNION {{rec.variants[i].id, rec.variants[i].sku} : i \in 1..Len(rec.variants)}
  ELSE IF a = "woo"
    THEN {WooFallbackId(rec.id)} \cup (IF IsSome(rec.sku) THEN {Val(rec.sku)} ELSE {})
         \cup UNION {{WooVariationsOf(rec)[i].sku} \cup
                     {OptOrStr(FindMeta(WooVariationsOf(rec)[i].meta_data, "_canonicalId"), EmptyStr)} :
                       i \in 1..Len(WooVariationsOf(rec))}
  ELSE LET skus == IF rec.shape = "item" THEN <<rec.sku>> ELSE rec.variantSKUs IN
       UNION {{skus[i], parseSku(skus[i]).originalSku,
               OptOrStr(parseSku(skus[i]).restoredMeta.canonicalId, EmptyStr)} : i \in 1..Len(skus)}

\* C4: canonicalId never crosses the platform boundary. What toPlatform
\* returns does not depend on the canonicalIds of the product, and no
\* canonicalId that fromPlatform returns is taken from the record read.
C4_IdNeverCrosses ==
  \A a \in Platforms :
    /\ LastTo(a) => Val(wire).rec = toPlatform(a, Renamed(Val(canon))).v
    /\ LastFrom(a) =>
         \A i \in 1..Len(Val(canon).variants) :
           Val(canon).variants[i].canonicalId \notin PayloadIds(a, Val(wire).rec)

\* every platform key of old except a's own is in new with the same value
MetaKept(old, new, a) == \A p \in (DOMAIN old) \ {a} : p \in DOMAIN new /\ new[p] = old[p]

\* the last two operations were a pass through adapter a: a.toPlatform of the
\* product before last in hist, a.fromPlatform giving the last one
PassThrough(a) ==
  /\ Len(trace) >= 2
  /\ LastFrom(a)
  /\ trace[Len(trace) - 1].op = "to"
  /\ Len(hist) >= 2

\* C5: meta is merge-additive. After a pass through adapter a, the product
\* meta and every variant's meta still hold every platform key they held
\* before, with the same value; at most a's own key is new.
C5_MetaMergeAdditive ==
  \A a \in Platforms :
    PassThrough(a) =>
      LET before == hist[Len(hist) - 1]
          after  == hist[Len(hist)]
      IN /\ MetaKept(before.meta, after.meta, a)
         /\ DOMAIN after.meta \subseteq (DOMAIN before.meta) \cup {a}
         /\ \A i \in 1..Len(before.variants) :
              /\ i <= Len(after.variants)
              /\ MetaKept(before.variants[i].meta, after.variants[i].meta, a)

\* meta.woo.productType === 'variable'
VariableFlag(p) == SubPlain(p.meta, "woo", "productType") = Some("variable")

\* C6: the WooCommerce wire shape. WooAdapter.toPlatform emits 'variable'
\* for one variant with the flag meta.woo.productType = 'variable', 'variable'
\* for two or more variants, 'simple' for one variant without the flag.
C6_WooShape ==
  (trace # <<>> /\ Last(trace).op = "to" /\ Last(trace).a = "woo") =>
    LET p == Val(canon)
        n == Len(p.variants)
    IN /\ (n = 1 /\ VariableFlag(p)) => (wire # None /\ Val(wire).rec.type = "variable")
       /\ n >= 2 => (wire # None /\ Val(wire).rec.type = "variable")
       /\ (n = 1 /\ ~VariableFlag(p)) => (wire # None /\ Val(wire).rec.type = "simple")

C6_Witness ==
  /\ LastTo("woo")
  /\ Len(Val(canon).variants) = 1
  /\ VariableFlag(Val(canon))
  /\ Val(wire).rec.type = "variable"
  /\ Len(Val(wire).rec.variations) = 1

\* step i read or wrote a WooCommerce record of type 'variable'
WooVariableAt(i, ops) ==
  trace[i].a = "woo" /\ trace[i].op \in ops /\ trace[i].res = "ok" /\ trace[i].shape = "variable"

WooSimpleWrittenAt(j) == trace[j].a = "woo" /\ trace[j].op = "to" /\ trace[j].shape = "simple"

\* C7 as stated: along reads, removals of variants and writes, a product once
\* read from or written to WooCommerce as 'variable' is never afterwards
\* written as 'simple'.
C7_NoOscillation ==
  \A i, j \in 1..Len(trace) :
    (i < j /\ WooVariableAt(i, {"from", "to"})) => ~WooSimpleWrittenAt(j)

\* C7, amended: along reads, removals of variants and writes, a product once
\* read from WooCommerce as 'variable' is never afterwards written as
\* 'simple', even when it is left with one variant.
C7_NoOscillationAfterRead ==
  \A i, j \in 1..Len(trace) :
    (i < j /\ WooVariableAt(i, {"from"})) => ~WooSimpleWrittenAt(j)

C7_Witness ==
  /\ Len(trace) >= 3
  /\ WooVariableAt(1, {"from"})
  /\ \E k \in 2..(Len(trace) - 1) : trace[k].op = "remove"
  /\ LastTo("woo")
  /\ Len(Val(canon).variants) = 1
  /\ Val(wire).rec.type = "variable"

\* the inventory the claim expects for a stock quantity and a stock status
ExpectedInventory(stock_quantity, stock_status) ==
  IF stock_quantity # None THEN stock_quantity
  ELSE IF stock_status = "instock" THEN Some(1)
  ELSE None

\* C8: stock inference of WooAdapter.fromPlatform, for a simple product and
\* for every variation: a null quantity reads as 1 when the status is
\* 'instock' and as null for any other status; a quantity is used verbatim.
C8_StockInference ==
  LastFrom("woo") =>
    LET rec == Val(wire).rec
        vs  == Val(canon).variants
    IN IF rec.type = "simple"
         THEN Len(vs) = 1 /\ vs[1].inventory = ExpectedInventory(rec.stock_quantity, rec.stock_status)
         ELSE /\ Len(vs) = Len(rec.variations)
              /\ \A i \in 1..Len(vs) :
                   vs[i].inventory = ExpectedInventory(rec.variations[i].stock_quantity,
                                                       rec.variations[i].stock_status)

C8_Witness ==
  /\ LastFrom("woo")
  /\ Val(wire).rec.type = "simple"
  /\ Val(wire).rec.stock_quantity = None
  /\ Val(wire).rec.stock_status = "outofstock"
  /\ Val(canon).variants[1].inventory = None

\* C9: WooAdapter.fromPlatform returns null, and does not throw, exactly for
\* the records of type 'grouped' or 'external'; convert() of such a record
\* returns null and does not call toPlatform.
C9_SkipUnsupported ==
  /\ \A i \in 1..Len(trace) :
       (trace[i].op = "from" /\ trace[i].a = "woo") =>
         (trace[i].res = "skip" <=> trace[i].shape \in {"grouped", "external"})
  /\ (Len(trace) >= 2 /\ trace[1].op = "convert" /\ trace[2].res = "skip") =>
       (trace[1].res = "skip" /\ Len(trace) = 2 /\ wire = None /\ canon = None)

C9_Witness ==
  /\ Len(trace) = 2
  /\ trace[1].op = "convert"
  /\ trace[2] = Step("from", "woo", "skip", "external")
  /\ wire = None

\* C10: the eBay SKU encoding round-trips. For every variant whose SKU holds
\* no '::meta=', parseSku of the offer SKU that toPlatform wrote returns the
\* SKU and the canonicalId, title and meta of the variant.
C10_SkuRoundTrip ==
  (LastTo("ebay") /\ Val(wire).rec.shape = "group") =>
    \A i \in 1..Len(Val(canon).variants) :
      LET v == Val(canon).variants[i]
          d == parseSku(Val(wire).rec.offers[i].sku)
      IN ~Includes(v.sku) =>
           /\ d.originalSku = v.sku
           /\ d.restoredMeta.canonicalId = Some(v.canonicalId)
           /\ d.restoredMeta.title = Some(v.title)
           /\ d.restoredMeta.meta = Some(v.meta)

\* the SKUs of an eBay record, one per variant read from it
EbaySkusOf(rec) == IF rec.shape = "item" THEN <<rec.sku>> ELSE [i \in 1..Len(rec.offers) |-> rec.offers[i].sku]

\* C11: EbayAdapter.fromPlatform never throws because of the text after
\* '::meta=' in a SKU: every read of an eBay record returns a canonical
\* product, and a variant whose SKU suffix is no parseable JSON payload has
\* sku = canonicalId = the text before the separator and no restored meta.
C11_ParseNeverThrows ==
  /\ \A i \in 1..Len(trace) : (trace[i].op = "from" /\ trace[i].a = "ebay") => trace[i].res = "ok"
  /\ LastFrom("ebay") =>
       LET skus == EbaySkusOf(Val(wire).rec) IN
       \A i \in 1..Len(skus) :
         (Includes(skus[i]) /\ ~JsonParse(SplitPart1(skus[i])).ok) =>
           LET v == Val(canon).variants[i] IN
           /\ v.sku = SplitPart0(skus[i])
           /\ v.canonicalId = SplitPart0(skus[i])
           /\ v.meta = [ebay |-> [sku |-> skus[i]]]

\* C12: metadata survives a pass through WooCommerce in both wire shapes.
\* After WooAdapter.toPlatform and WooAdapter.fromPlatform the product meta
\* holds every other platform's key as before, and every variant has the
\* canonicalId and the other platforms' meta it had, whether the record was
\* written as 'simple' or as 'variable'.
C12_WooMetaSurvives ==
  PassThrough("woo") =>
    LET before == hist[Len(hist) - 1]
        after  == hist[Len(hist)]
    IN /\ MetaKept(before.meta, after.meta, "woo")
       /\ Len(after.variants) = Len(before.variants)
       /\ \A i \in 1..Len(before.variants) :
            /\ after.variants[i].canonicalId = before.variants[i].canonicalId
            /\ MetaKept(before.variants[i].meta, after.variants[i].meta, "woo")

\* this step is a call of toPlatform that follows a call of the same
\* adapter's toPlatform, the product held being the same at both calls
RepeatedTo ==
  /\ trace # <<>>
  /\ Last(trace).op = "to"
  /\ trace' = Append(trace, Last(trace'))
  /\ Last(trace').op = "to"
  /\ Last(trace').a = Last(trace).a

DecimalOf(text, n) ==
  /\ ParseFloat(text) = n
  /\ n # NaN => \A k \in 1..Len(text) : IsDigit(text[k])

\* C14: ShopifyAdapter.toPlatform writes inventory_quantity 0 for a variant
\* whose inventory is null and the inventory itself otherwise, price and
\* compare_at_price as the decimal strings of the canonical numbers, and no
\* compare_at_price when the variant has no compareAtPrice.
C14_ShopifyInventoryAndPrices ==
  LastTo("shopify") =>
    /\ Len(Val(wire).rec.variants) = Len(Val(canon).variants)
    /\ \A i \in 1..Len(Val(canon).variants) :
         LET v == Val(canon).variants[i]
             w == Val(wire).rec.variants[i]
         IN /\ v.inventory = None => w.inventory_quantity = 0
            /\ v.inventory # None => w.inventory_quantity = Val(v.inventory)
            /\ DecimalOf(w.price, v.price)
            /\ v.compareAtPrice = None => w.compare_at_price = None
            /\ v.compareAtPrice # None =>
                 (w.compare_at_price # None /\ DecimalOf(Val(w.compare_at_price), Val(v.compareAtPrice)))

C14_Witness ==
  /\ LastTo("shopify")
  /\ \E i \in 1..Len(Val(canon).variants) :
       /\ Val(canon).variants[i].inventory = None
       /\ Val(canon).variants[i].compareAtPrice # None
       /\ Val(wire).rec.variants[i].inventory_quantity = 0
       /\ Val(wire).rec.variants[i].compare_at_price # None

-----------------------------------------------------------------------------
(* ShopifyClient: syncProducts, _updateSingleProduct,                      *)
(* updatePriceAndInventory, addVariantsToProduct                           *)

\* the SKU of variant j of the p-th product of a batch
Sku(p, j) == <<"sku", p, j>>

\* price strings
P1000 == <<"1", "0", ".", "0", "0">>

P10 == <<"1", "0">>

P1200 == <<"1", "2", ".", "0", "0">>

\* Number(price)
Number(s) == ParseFloat(s)

\* the elements of a set of numbers in increasing order
RECURSIVE Ordered(_)
Ordered(S) == IF S = {} THEN <<>> ELSE <<Min(S)>> \o Ordered(S \ {Min(S)})

RECURSIVE Concat(_)
\* the concatenation of a sequence of sequences
Concat(ss) == IF ss = <<>> THEN <<>> ELSE Head(ss) \o Concat(Tail(ss))

\* the SKUs of the first product only
AllSkusOfFirst(ps) ==
  IF ps = <<>> THEN <<>> ELSE [j \in 1..Len(ps[1].variants) |-> ps[1].variants[j].sku]

\* products.flatMap(p => p.variants.map(v => v.sku))
AllSkus(ps) == Concat([p \in 1..Len(ps) |-> [j \in 1..Len(ps[p].variants) |-> ps[p].variants[j].sku]])

\* _findProductsBySkus: the variants of the store whose SKU was asked for
FindProductsBySkus(skus) ==
  LET found == {k \in DOMAIN remote : \E i \in 1..Len(skus) : skus[i] = k} IN
  [k \in found |-> remote[k]]

\* every variant of the product is in the map
HasEveryVariantExisting(product, map) == \A j \in 1..Len(product.variants) : product.variants[j].sku \in DOMAIN map

\* product.variants.some(v => existingVariantsMap.has(v.sku))
HasExistingVariant(product, map) == \E j \in 1..Len(product.variants) : product.variants[j].sku \in DOMAIN map

\* the positions in the batch of productsToCreate and of productsToUpdate
ProductsToCreate(ps, map) == Ordered({p \in 1..Len(ps) : ~HasExistingVariant(ps[p], map)})

ProductsToUpdate(ps, map) == Ordered({p \in 1..Len(ps) : HasExistingVariant(ps[p], map)})

\* Number(existing.price) !== Number(variant.price); NaN differs from itself
PriceHasChanged(existing, variant) ==
  LET x == Number(existing.price)
      y == Number(variant.price)
  IN x = NaN \/ y = NaN \/ x # y

\* existing.inventory !== variant.inventory_quantity
InventoryHasChanged(existing, variant) == existing.inventory # variant.inventory_quantity

\* the loop of _updateSingleProduct over the variants of a product
UpdatePlan(product, map) ==
  LET n == Len(product.variants)
      matched == {j \in 1..n : product.variants[j].sku \in DOMAIN map}
      ex(j) == map[product.variants[j].sku]
      withId == {j \in matched : IsSome(ex(j).productId) /\ TruthyStr(Val(ex(j).productId))}
      changed == {j \in matched : PriceHasChanged(ex(j), product.variants[j])
                                   \/ InventoryHasChanged(ex(j), product.variants[j])}
      toUpdate == Ordered(changed)
  IN [variantsToUpdate |->
        [k \in 1..Len(toUpdate) |->
           [sku |-> product.variants[toUpdate[k]].sku,
            variantId |-> ex(toUpdate[k]).variantId,
            price |-> ex(toUpdate[k]).price,
            inventory |-> ex(toUpdate[k]).inventory,
            newPrice |-> product.variants[toUpdate[k]].price,
            newInventory |-> product.variants[toUpdate[k]].inventory_quantity]],
      variantsToCreate |-> LET c == Ordered((1..n) \ matched) IN [k \in 1..Len(c) |-> product.variants[c[k]]],
      existingProductId |-> IF withId = {} THEN None ELSE ex(Min(withId)).productId,
      unchangedVariantCount |-> Cardinality(matched \ changed)]

\* the throw only when a matched variant changed
ParentUnresolvedForUpdates(plan) ==
  plan.existingProductId = None /\ Len(plan.variantsToUpdate) > 0

\* throw new Error("Could not determine parent product ID ...")
ParentUnresolved(plan) ==
  plan.existingProductId = None /\ (Len(plan.variantsToUpdate) > 0 \/ Len(plan.variantsToCreate) > 0)

\* the requests a client sends
LookupCall(skus) == [op |-> "lookup", p |-> 0, skus |-> skus]

CreateCall(p, product) == [op |-> "create", p |-> p, product |-> product]

PriceCall(p, u) == [op |-> "price", p |-> p, sku |-> u.sku, variantId |-> u.variantId, price |-> u.newPrice]

InventoryCall(p, us) ==
  [op |-> "inventory", p |-> p, items |-> [k \in 1..Len(us) |-> [sku |-> us[k].sku, quantity |-> us[k].newInventory]]]

AddVariantCall(p, productId, variant) == [op |-> "addVariant", p |-> p, productId |-> productId, variant |-> variant]

\* updates.filter(u => u.price !== u.newPrice): the strings are compared
PriceUpdates(updates) == SelectSeq(updates, LAMBDA u : u.price # u.newPrice)

\* updates.filter(u => u.inventory !== u.newInventory)
InventoryUpdates(updates) == SelectSeq(updates, LAMBDA u : u.inventory # u.newInventory)

\* updatePriceAndInventory up to its first await: the requests sent, and
\* whether it has thrown for want of a location id
UpdatePriceAndInventory(p, updates) ==
  LET priceUpdates == PriceUpdates(updates)
      inventoryUpdates == InventoryUpdates(updates)
      priceCalls == [k \in 1..Len(priceUpdates) |-> PriceCall(p, priceUpdates[k])]
  IN IF Len(inventoryUpdates) > 0
       THEN IF locationGid = None THEN [calls |-> priceCalls, rejected |-> TRUE]
            ELSE [calls |-> Append(priceCalls, InventoryCall(p, inventoryUpdates)), rejected |-> FALSE]
     ELSE [calls |-> priceCalls, rejected |-> FALSE]

\* _updateSingleProduct up to its first await: the requests sent and the
\* promise it returns
UpdateSingleProduct(p, product, map) ==
  LET plan == UpdatePlan(product, map) IN
  IF ParentUnresolved(plan)
    THEN [calls |-> <<>>, task |-> [path |-> "update", state |-> "rejected", queue |-> <<>>, parent |-> None]]
  ELSE
    LET upd == IF Len(plan.variantsToUpdate) > 0
                 THEN UpdatePriceAndInventory(p, plan.variantsToUpdate)
                 ELSE [calls |-> <<>>, rejected |-> FALSE]
        add == IF Len(plan.variantsToCreate) > 0
                 THEN <<AddVariantCall(p, plan.existingProductId, plan.variantsToCreate[1])>>
                 ELSE <<>>
        sent == upd.calls \o add
    IN [calls |-> sent,
        task |-> [path |-> "update",
                  state |-> IF upd.rejected THEN "rejected" ELSE IF sent = <<>> THEN "fulfilled" ELSE "pending",
                  queue |-> IF Len(plan.variantsToCreate) > 0 THEN Tail(plan.variantsToCreate) ELSE <<>>,
                  parent |-> plan.existingProductId]]

\* ShopifyClient.createProduct up to its first await
CreateProduct(p, product) ==
  [calls |-> <<CreateCall(p, product)>>,
   task |-> [path |-> "create", state |-> "pending", queue |-> <<>>, parent |-> None]]

\* what syncProducts starts for the p-th product
StartProduct(p, map) ==
  IF HasExistingVariant(products[p], map) THEN UpdateSingleProduct(p, products[p], map)
  ELSE CreateProduct(p, products[p])

\* one join over the creates and the updates together
SettleTogether(ts) ==
  IF \E p \in 1..Len(ts) : ts[p].state = "rejected" THEN "rejected"
  ELSE IF \E p \in 1..Len(ts) : ts[p].state = "pending" THEN "awaiting"
  ELSE "resolved"

\* await Promise.all(createPromises); await Promise.all(updatePromises)
Settle(ts) ==
  LET creates == {p \in 1..Len(ts) : ts[p].path = "create"}
      updates == {p \in 1..Len(ts) : ts[p].path = "update"}
  IN IF \E p \in creates : ts[p].state = "rejected" THEN "rejected"
     ELSE IF \E p \in creates : ts[p].state = "pending" THEN "awaiting"
     ELSE IF \E p \in updates : ts[p].state = "rejected" THEN "rejected"
     ELSE IF \E p \in updates : ts[p].state = "pending" THEN "awaiting"
     ELSE "resolved"

\* the promise Promise.all rejects with when syncProducts comes to reject:
\* the create that failed, or the first of the updates that have failed
RejectedWith(ts) ==
  LET failed(path) == {p \in 1..Len(ts) : ts[p].path = path /\ ts[p].state = "rejected"} IN
  IF failed("create") # {} THEN Min(failed("create")) ELSE Min(failed("update"))

\* { created: createdResults, updated: updatedResults.flat() }: the products
\* whose results syncProducts returns
SyncResult ==
  IF pc = "resolved"
    THEN [created |-> Ordered({p \in 1..Len(tasks) : tasks[p].path = "create"}),
          updated |-> Ordered({p \in 1..Len(tasks) : tasks[p].path = "update"})]
  ELSE [created |-> <<>>, updated |-> <<>>]

\* the batches handed to syncProducts: the first variant of the first
\* product comes with every price and inventory, the others with one
SyncVariantInputs(p, j) ==
  IF p = 1 /\ j = 1
    THEN {[sku |-> Sku(1, 1), price |-> pr, inventory_quantity |-> q] : pr \in {P1000, P10, P1200}, q \in {5, 7}}
  ELSE {[sku |-> Sku(p, j), price |-> IF j = 1 THEN P1200 ELSE P1000, inventory_quantity |-> 5]}

RECURSIVE SyncVariantLists(_, _)
SyncVariantLists(p, n) ==
  IF n = 0 THEN {<<>>}
  ELSE {Append(l, v) : l \in SyncVariantLists(p, n - 1), v \in SyncVariantInputs(p, n)}

SyncProductInputs(p) ==
  {[title |-> <<"product", p>>, variants |-> l] : l \in UNION {SyncVariantLists(p, n) : n \in 0..MaxSyncVariants}}

RECURSIVE SyncBatches(_)
SyncBatches(n) ==
  IF n = 0 THEN {<<>>}
  ELSE {Append(b, x) : b \in SyncBatches(n - 1), x \in SyncProductInputs(n)}

\* what the store holds of a variant: ExistingVariantData
RemoteEntry(sku, withId) ==
  [productId |-> IF withId THEN Some(<<Ch("gid://shopify/Product/"), Ch(sku[2])>>) ELSE None,
   variantId |-> <<"gid://shopify/ProductVariant", sku[2], sku[3]>>,
   price |-> P1000,
   inventory |-> 5]

\* the stores: any of three variants known, with or without a product id
RemoteInputs ==
  {[k \in S |-> RemoteEntry(k, withId)] : S \in SUBSET {Sku(1, 1), Sku(1, 2), Sku(2, 1)}, withId \in BOOLEAN}

InitShopifySync ==
  /\ AdapterIdle
  /\ products \in UNION {SyncBatches(n) : n \in 0..MaxProducts}
  /\ remote \in RemoteInputs
  /\ locationGid \in {None, Some("1")}
  /\ calls = <<>>
  /\ open = {}
  /\ tasks = <<>>
  /\ failures = <<>>
  /\ rejection = <<>>
  /\ pc = "start"

\* syncProducts up to its first await
SyncStart ==
  /\ pc = "start"
  /\ IF Len(products) = 0 \/ Len(AllSkus(products)) = 0
       THEN pc' = "resolved" /\ UNCHANGED <<calls, open>>
       ELSE /\ calls' = <<LookupCall(AllSkus(products))>>
            /\ open' = {1}
            /\ pc' = "lookup"
  /\ UNCHANGED <<products, remote, locationGid, tasks, failures, rejection>>
  /\ UNCHANGED adapterVars

\* the lookup request fails: _request throws and syncProducts rejects
LookupFails ==
  /\ pc = "lookup"
  /\ open' = {}
  /\ pc' = "rejected"
  /\ rejection' = Some(0)
  /\ UNCHANGED <<products, remote, locationGid, calls, tasks, failures>>
  /\ UNCHANGED adapterVars

\* the lookup request is answered: syncProducts sorts the products and starts
\* every create and every update, up to its next await
LookupReturns ==
  /\ pc = "lookup"
  /\ LET map == FindProductsBySkus(calls[1].skus)
         order == ProductsToCreate(products, map) \o ProductsToUpdate(products, map)
         sent == Concat([k \in 1..Len(order) |-> StartProduct(order[k], map).calls])
     IN /\ tasks' = [p \in 1..Len(products) |-> StartProduct(p, map).task]
        /\ calls' = calls \o sent
        /\ open' = (Len(calls) + 1)..(Len(calls) + Len(sent))
        /\ failures' = SelectSeq(order, LAMBDA p : StartProduct(p, map).task.state = "rejected")
  /\ pc' = Settle(tasks')
  /\ rejection' = IF pc # "rejected" /\ pc' = "rejected" THEN Some(RejectedWith(tasks')) ELSE rejection
  /\ UNCHANGED <<products, remote, locationGid>>
  /\ UNCHANGED adapterVars

\* a request of a product is answered: addVariantsToProduct sends the next
\* variant, and the promise of the product is fulfilled when nothing of it
\* is outstanding
RequestSucceeds ==
  /\ pc \in {"awaiting", "resolved", "rejected"}
  /\ \E i \in open :
       LET p == calls[i].p
           more == calls[i].op = "addVariant" /\ tasks[p].queue # <<>>
           left == {k \in open \ {i} : calls[k].p = p}
       IN /\ calls' = IF more THEN Append(calls, AddVariantCall(p, tasks[p].parent, tasks[p].queue[1])) ELSE calls
          /\ open' = (open \ {i}) \cup (IF more THEN {Len(calls) + 1} ELSE {})
          /\ tasks' = [tasks EXCEPT ![p] =
                         [@ EXCEPT !.queue = IF more THEN Tail(@) ELSE @,
                                   !.state = IF @ = "pending" /\ ~more /\ left = {} THEN "fulfilled" ELSE @]]
  /\ pc' = Settle(tasks')
  /\ rejection' = IF pc # "rejected" /\ pc' = "rejected" THEN Some(RejectedWith(tasks')) ELSE rejection
  /\ UNCHANGED <<products, remote, locationGid, failures>>
  /\ UNCHANGED adapterVars

\* a request of a product fails: _request throws, the promise of the product
\* is rejected, and addVariantsToProduct sends no further variant
RequestFails ==
  /\ pc \in {"awaiting", "resolved", "rejected"}
  /\ \E i \in open :
       LET p == calls[i].p IN
       /\ open' = open \ {i}
       /\ tasks' = [tasks EXCEPT ![p] =
                      [@ EXCEPT !.queue = IF calls[i].op = "addVariant" THEN <<>> ELSE @,
                                !.state = IF @ = "pending" THEN "rejected" ELSE @]]
       /\ failures' = IF tasks[p].state = "pending" THEN Append(failures, p) ELSE failures
  /\ pc' = Settle(tasks')
  /\ rejection' = IF pc # "rejected" /\ pc' = "rejected" THEN Some(RejectedWith(tasks')) ELSE rejection
  /\ UNCHANGED <<products, remote, locationGid, calls>>
  /\ UNCHANGED adapterVars

NextShopifySync ==
  \/ SyncStart
  \/ LookupFails
  \/ LookupReturns
  \/ RequestSucceeds
  \/ RequestFails

SpecShopifySync == InitShopifySync /\ [][NextShopifySync]_vars

-----------------------------------------------------------------------------
(* WooCommerceClient: syncProducts, getProductBySku, createProduct,        *)
(* updateVariations                                                        *)

\* the identifiers the store gives
WooProductId(p) == <<"wooProduct", p>>

WooVariationId(sku) == <<"wooVariation", sku[2], sku[3]>>

WooNewProductId(p) == <<"wooProduct", "new", p>>

\* the requests the client sends
WooLookupCall(p, sku) == [op |-> "getBySku", p |-> p, sku |-> sku]

WooVariationsCall(p, productId) == [op |-> "getVariations", p |-> p, productId |-> productId]

WooParentCall(p, payload) == [op |-> "createParent", p |-> p, product |-> payload]

WooBatchCreateCall(p, productId, variations) ==
  [op |-> "batchCreate", p |-> p, productId |-> productId, variations |-> variations]

WooSingleCall(p, product) == [op |-> "createSingle", p |-> p, product |-> product]

WooBatchUpdateCall(p, productId, variations) ==
  [op |-> "batchUpdate", p |-> p, productId |-> productId, variations |-> variations]

\* syncProducts: the SKU by which a product is looked up
SkuToCheck(product) ==
  IF product.type = "simple" THEN product.sku
  ELSE IF product.type = "variable" /\ Len(product.variations) > 0 THEN Some(product.variations[1].sku)
  ELSE None

\* GET products/<id>/variations: the variations the store holds of a product
VariationsOf(productId) ==
  LET held == {k \in DOMAIN remote : remote[k].type = "variation" /\ remote[k].parent_id = productId}
      order == Ordered({k[3] : k \in held})
  IN [n \in 1..Len(order) |->
        LET sku == CHOOSE k \in held : k[3] = order[n] IN [id |-> WooVariationId(sku), sku |-> sku]]

\* getProductBySku: whether the variations are fetched, and of which product
FetchesVariations(found) == found.type \in {"variable", "variation"}

VariationsProductId(found) == IF found.type = "variation" THEN found.parent_id ELSE found.id

\* updateVariations: every variant takes the id of the variation of its SKU
WithVariationIds(oldVariations, variants) ==
  [n \in 1..Len(variants) |->
     LET same == {k \in 1..Len(oldVariations) : oldVariations[k].sku = variants[n].sku} IN
     [sku |-> variants[n].sku,
      id |-> IF same = {} THEN None ELSE Some(oldVariations[CHOOSE k \in same : \A m \in same : k >= m].id)]]

UpdateVariations(p, oldProduct, variants) ==
  WooBatchUpdateCall(p, VariationsProductId(oldProduct), WithVariationIds(oldProduct.variations, variants))

\* createProduct: the two-step creation applies
IsTwoStep(product) ==
  product.type = "variable" /\ "variations" \in DOMAIN product /\ Len(product.variations) > 0

\* the parent payload with the variations left in
ParentProductPayloadWhole(product) == product

\* const { variations, ...parentProductPayload } = variableProduct
ParentProductPayload(product) == [f \in DOMAIN product \ {"variations"} |-> product[f]]

\* createProduct up to its first await
WooCreateProduct(p, product) ==
  IF IsTwoStep(product) THEN WooParentCall(p, ParentProductPayload(product))
  ELSE WooSingleCall(p, product)

\* if (createdParentProduct.id && variationsToCreate.length > 0)
BatchFollows(id, product) == id # None /\ Len(product.variations) > 0

\* syncProducts once getProductBySku has returned existing (None for null):
\* the request sent and the path taken
Dispatch(p, existing) ==
  IF existing # None /\ "variations" \in DOMAIN products[p]
    THEN [call |-> UpdateVariations(p, Val(existing), products[p].variations), path |-> "update"]
  ELSE [call |-> WooCreateProduct(p, products[p]), path |-> "create"]

\* the loop of syncProducts from the p-th product on, up to its next await
RECURSIVE WooContinue(_, _, _)
WooContinue(ts, cs, p) ==
  IF p > Len(products)
    THEN [tasks |-> ts, calls |-> cs, open |-> {}, pc |-> "resolved"]
  ELSE IF SkuToCheck(products[p]) = None
    THEN WooContinue([ts EXCEPT ![p] = [@ EXCEPT !.path = "skip", !.state = "fulfilled"]], cs, p + 1)
  ELSE [tasks |-> [ts EXCEPT ![p] = [@ EXCEPT !.state = "pending"]],
        calls |-> Append(cs, WooLookupCall(p, Val(SkuToCheck(products[p])))),
        open |-> {Len(cs) + 1},
        pc |-> "awaiting"]

\* results.created, results.updated, results.skipped
WooResults ==
  LET count(path) == Cardinality({p \in 1..Len(tasks) : tasks[p].path = path /\ tasks[p].state = "fulfilled"}) IN
  IF pc = "resolved"
    THEN Some([created |-> count("create"), updated |-> count("update"), skipped |-> count("skip")])
  ELSE None

\* the batches handed to syncProducts
WooSyncVariations(p, n) == [j \in 1..n |-> [sku |-> Sku(p, j), regular_price |-> P1000]]

WooSyncProductInputs(p) ==
  {[type |-> "simple", name |-> <<"product", p>>, sku |-> s] : s \in {None, Some(Sku(p, 1))}}
    \cup {[type |-> "variable", name |-> <<"product", p>>, sku |-> None, variations |-> WooSyncVariations(p, n)] :
            n \in 0..MaxSyncVariants}

RECURSIVE WooSyncBatches(_)
WooSyncBatches(n) ==
  IF n = 0 THEN {<<>>}
  ELSE {Append(b, x) : b \in WooSyncBatches(n - 1), x \in WooSyncProductInputs(n)}

\* what GET products?sku= answers for a SKU the store holds
WooRemoteEntry(sku, type) ==
  [type |-> type,
   id |-> IF type = "variation" THEN WooVariationId(sku) ELSE WooProductId(sku[2]),
   parent_id |-> IF type = "variation" THEN WooProductId(sku[2]) ELSE <<>>]

WooRemoteInputs ==
  {[k \in S |-> WooRemoteEntry(k, type)] :
     S \in SUBSET {Sku(1, 1), Sku(1, 2), Sku(2, 1)}, type \in {"simple", "variable", "variation"}}

InitWooSync ==
  /\ AdapterIdle
  /\ products \in UNION {WooSyncBatches(n) : n \in 0..MaxProducts}
  /\ remote \in WooRemoteInputs
  /\ locationGid = None
  /\ calls = <<>>
  /\ open = {}
  /\ tasks = <<>>
  /\ failures = <<>>
  /\ rejection = <<>>
  /\ pc = "start"

\* syncProducts up to its first await
WooSyncStart ==
  /\ pc = "start"
  /\ LET next == WooContinue([p \in 1..Len(products) |->
                                [path |-> "none", state |-> "waiting", queue |-> <<>>, parent |-> None]],
                             <<>>, 1)
     IN /\ tasks' = next.tasks
        /\ calls' = next.calls
        /\ open' = next.open
        /\ pc' = next.pc
  /\ UNCHANGED <<products, remote, locationGid, failures, rejection>>
  /\ UNCHANGED adapterVars

\* GET products?sku= is answered: getProductBySku fetches the variations of
\* a variable product or of a variation, and returns otherwise
SkuLookupReturns ==
  /\ pc = "awaiting"
  /\ \E i \in open :
       /\ calls[i].op = "getBySku"
       /\ LET p == calls[i].p
              found == calls[i].sku \in DOMAIN remote
          IN IF found /\ FetchesVariations(remote[calls[i].sku])
               THEN /\ calls' = Append(calls, WooVariationsCall(p, VariationsProductId(remote[calls[i].sku])))
                    /\ open' = {Len(calls) + 1}
                    /\ UNCHANGED tasks
               ELSE LET existing == IF found
                                      THEN Some([type |-> remote[calls[i].sku].type,
                                                 id |-> remote[calls[i].sku].id,
                                                 parent_id |-> remote[calls[i].sku].parent_id,
                                                 variations |-> <<>>])
                                    ELSE None
                        d == Dispatch(p, existing)
                    IN /\ calls' = Append(calls, d.call)
                       /\ open' = {Len(calls) + 1}
                       /\ tasks' = [tasks EXCEPT ![p] = [@ EXCEPT !.path = d.path]]
  /\ UNCHANGED <<products, remote, locationGid, pc, failures, rejection>>
  /\ UNCHANGED adapterVars

\* GET products/<id>/variations is answered: getProductBySku returns the
\* product with its variations
VariationsFetched ==
  /\ pc = "awaiting"
  /\ \E i \in open :
       /\ calls[i].op = "getVariations"
       /\ LET p == calls[i].p
              found == remote[calls[i - 1].sku]
              existing == Some([type |-> found.type, id |-> found.id, parent_id |-> found.parent_id,
                                variations |-> VariationsOf(calls[i].productId)])
              d == Dispatch(p, existing)
          IN /\ calls' = Append(calls, d.call)
             /\ open' = {Len(calls) + 1}
             /\ tasks' = [tasks EXCEPT ![p] = [@ EXCEPT !.path = d.path]]
  /\ UNCHANGED <<products, remote, locationGid, pc, failures, rejection>>
  /\ UNCHANGED adapterVars

\* POST products of the parent is answered, with or without an id: the
\* batch of variations follows, or createProduct returns the parent
ParentCreated ==
  /\ pc = "awaiting"
  /\ \E i \in open :
       /\ calls[i].op = "createParent"
       /\ \E id \in {None, Some(WooNewProductId(calls[i].p))} :
            LET p == calls[i].p IN
            IF BatchFollows(id, products[p])
              THEN /\ calls' = Append(calls, WooBatchCreateCall(p, Val(id), products[p].variations))
                   /\ open' = {Len(calls) + 1}
                   /\ tasks' = [tasks EXCEPT ![p] = [@ EXCEPT !.parent = id]]
                   /\ pc' = pc
              ELSE LET next == WooContinue([tasks EXCEPT ![p] = [@ EXCEPT !.parent = id, !.state = "fulfilled"]],
                                           calls, p + 1)
                   IN /\ tasks' = next.tasks
                      /\ calls' = next.calls
                      /\ open' = next.open
                      /\ pc' = next.pc
  /\ UNCHANGED <<products, remote, locationGid, failures, rejection>>
  /\ UNCHANGED adapterVars

\* the last request of a product is answered: the product is counted and
\* the loop goes on
WooWriteDone ==
  /\ pc = "awaiting"
  /\ \E i \in open :
       /\ calls[i].op \in {"batchCreate", "createSingle", "batchUpdate"}
       /\ LET p == calls[i].p
              next == WooContinue([tasks EXCEPT ![p] = [@ EXCEPT !.state = "fulfilled"]], calls, p + 1)
          IN /\ tasks' = next.tasks
             /\ calls' = next.calls
             /\ open' = next.open
             /\ pc' = next.pc
  /\ UNCHANGED <<products, remote, locationGid, failures, rejection>>
  /\ UNCHANGED adapterVars

\* a request is answered with an error status: _request throws, and nothing
\* in syncProducts catches it
WooRequestFails ==
  /\ pc = "awaiting"
  /\ \E i \in open :
       /\ tasks' = [tasks EXCEPT ![calls[i].p] = [@ EXCEPT !.state = "rejected"]]
       /\ failures' = Append(failures, calls[i].p)
       /\ rejection' = Some(calls[i].p)
       /\ open' = {}
       /\ pc' = "rejected"
  /\ UNCHANGED <<products, remote, locationGid, calls>>
  /\ UNCHANGED adapterVars

NextWooSync ==
  \/ WooSyncStart
  \/ SkuLookupReturns
  \/ VariationsFetched
  \/ ParentCreated
  \/ WooWriteDone
  \/ WooRequestFails

SpecWooSync == InitWooSync /\ [][NextWooSync]_vars

-----------------------------------------------------------------------------
(* Properties of ShopifyClient.syncProducts                                *)

\* the requests sent for the p-th product, of the kinds ops
CallsOf(p, ops) == {i \in 1..Len(calls) : calls[i].p = p /\ calls[i].op \in ops}

\* the variants of the p-th product whose SKU the store holds, and the others
Matched(p) == {j \in 1..Len(products[p].variants) : products[p].variants[j].sku \in DOMAIN remote}

Unmatched(p) == (1..Len(products[p].variants)) \ Matched(p)

\* a price request, an inventory request, was sent for the variant
PriceSent(p, sku) == \E i \in CallsOf(p, {"price"}) : calls[i].sku = sku

InventorySent(p, sku) ==
  \E i \in CallsOf(p, {"inventory"}) : \E k \in 1..Len(calls[i].items) : calls[i].items[k].sku = sku

C16_MinimalDiff ==
  tasks # <<>> =>
    \A p \in 1..Len(products) : \A j \in Matched(p) :
      LET v == products[p].variants[j]
          r == remote[v.sku]
          samePrice == Number(v.price) = Number(r.price)
          sameInventory == v.inventory_quantity = r.inventory
      IN /\ PriceSent(p, v.sku) => ~samePrice
         /\ InventorySent(p, v.sku) => ~sameInventory
         /\ (samePrice /\ sameInventory) => (~PriceSent(p, v.sku) /\ ~InventorySent(p, v.sku))
         /\ (samePrice /\ ~sameInventory /\ locationGid # None /\ r.productId # None) =>
              (InventorySent(p, v.sku) /\ ~PriceSent(p, v.sku))

\* no matched variant of the p-th product gives a usable remote product id
NoUsableParent(p) ==
  /\ Matched(p) # {}
  /\ \A j \in Matched(p) : remote[products[p].variants[j].sku].productId = None

\* the p-th product has something to update or to append
NeedsChange(p) ==
  \/ Unmatched(p) # {}
  \/ \E j \in Matched(p) :
       LET v == products[p].variants[j] IN
       \/ Number(v.price) # Number(remote[v.sku].price)
       \/ v.inventory_quantity # remote[v.sku].inventory

\* C17 as stated: an update with no usable remote product id ends in a
\* thrown error for that product, and no price, inventory or add-variant
\* request is issued for it.
C17_UnresolvedParentThrows ==
  tasks # <<>> =>
    \A p \in 1..Len(products) :
      NoUsableParent(p) =>
        /\ tasks[p].state = "rejected"
        /\ CallsOf(p, {"price", "inventory", "addVariant"}) = {}

\* C17 amended: an update with no usable remote product id issues no request
\* for that product; it ends in a thrown error when a matched variant
\* changed or a variant is to be appended, and completes without error when
\* nothing is to be changed.
C17_UnresolvedParentThrowsWhenNeeded ==
  tasks # <<>> =>
    \A p \in 1..Len(products) :
      NoUsableParent(p) =>
        /\ CallsOf(p, {"create", "price", "inventory", "addVariant"}) = {}
        /\ tasks[p].state = IF NeedsChange(p) THEN "rejected" ELSE "fulfilled"

C17_Witness ==
  /\ tasks # <<>>
  /\ NoUsableParent(1)
  /\ Unmatched(1) # {}
  /\ tasks[1].state = "rejected"
  /\ pc = "rejected"
  /\ CallsOf(1, {"create", "price", "inventory", "addVariant"}) = {}

\* the products whose results syncProducts hands to its caller
Reported == {SyncResult.created[k] : k \in 1..Len(SyncResult.created)} \cup {SyncResult.updated[k] : k \in 1..Len(SyncResult.updated)}

\* C18: failures are isolated per product. Once every request of a batch is
\* answered, every product whose own operation succeeded has its result
\* reported to the caller, whatever happened to the other products.
C18_FailureIsolation ==
  (tasks # <<>> /\ open = {}) =>
    \A p \in 1..Len(products) : tasks[p].state = "fulfilled" => p \in Reported

\* the variants of the batch, by product and position
VariantsToSync == UNION {{<<p, j>> : j \in 1..Len(products[p].variants)} : p \in 1..Len(products)}

AllStarted ==
  tasks # <<>> =>
    \A p \in 1..Len(products) :
      /\ Matched(p) = {} => CallsOf(p, {"create"}) # {}
      /\ (Matched(p) # {} /\ ~NoUsableParent(p) /\ Unmatched(p) # {}) => CallsOf(p, {"addVariant"}) # {}

\* the positions in failures of the creates
FailedCreates == {k \in 1..Len(failures) : tasks[failures[k]].path = "create"}

\* C25 as stated: all creates and updates are started before any is
\* awaited, so the requests of the other products are sent although one
\* product fails; syncProducts rejects with the first failure and returns
\* neither the created nor the updated results.
C25_RejectsWithFirstFailure ==
  /\ AllStarted
  /\ (pc = "rejected" /\ tasks # <<>>) =>
       /\ rejection = Some(failures[1])
       /\ SyncResult = [created |-> <<>>, updated |-> <<>>]

\* C25 amended: all creates and updates are started before any is awaited.
\* syncProducts rejects with the failure of the first create to fail; when
\* no create has failed it rejects only once no create is pending, with the
\* failure of an update such that every update that failed before it comes
\* later in the batch. It then returns no results.
C25_RejectsInJoinOrder ==
  /\ AllStarted
  /\ (pc = "rejected" /\ tasks # <<>>) =>
       /\ SyncResult = [created |-> <<>>, updated |-> <<>>]
       /\ rejection # None
       /\ IF FailedCreates # {}
            THEN Val(rejection) = failures[Min(FailedCreates)]
          ELSE /\ \A p \in 1..Len(tasks) : tasks[p].path = "create" => tasks[p].state = "fulfilled"
               /\ \E k \in 1..Len(failures) :
                    /\ failures[k] = Val(rejection)
                    /\ \A m \in 1..(k - 1) : failures[m] > failures[k]
  /\ (failures # <<>> /\ open = {}) => pc = "rejected"

C25_Witness ==
  /\ pc = "rejected"
  /\ Len(tasks) = 2
  /\ tasks[1].path = "update"
  /\ tasks[2].path = "create"
  /\ failures = <<1, 2>>
  /\ rejection = Some(2)
  /\ CallsOf(1, {"price", "inventory", "addVariant"}) # {}

\* the matched variants of the p-th product that _updateSingleProduct passes
\* to updatePriceAndInventory
PassedOn(p) ==
  IF NoUsableParent(p) THEN {}
  ELSE {j \in Matched(p) :
          \/ PriceHasChanged(remote[products[p].variants[j].sku], products[p].variants[j])
          \/ InventoryHasChanged(remote[products[p].variants[j].sku], products[p].variants[j])}

\* C26: the two change tests of the update path agree. For every variant
\* passed to updatePriceAndInventory a price request is sent if and only if
\* the price comparison of _updateSingleProduct found a change, and, a
\* location being configured, an inventory request if and only if the
\* inventory differs; every variant passed on causes at least one request.
C26_ChangeTestsAgree ==
  tasks # <<>> =>
    \A p \in 1..Len(products) : \A j \in PassedOn(p) :
      LET v == products[p].variants[j]
          existing == remote[v.sku]
      IN /\ PriceSent(p, v.sku) <=> PriceHasChanged(existing, v)
         /\ locationGid # None =>
              /\ InventorySent(p, v.sku) <=> InventoryHasChanged(existing, v)
              /\ PriceSent(p, v.sku) \/ InventorySent(p, v.sku)

-----------------------------------------------------------------------------
(* Properties of WooCommerceClient.createProduct                           *)

-----------------------------------------------------------------------------
(* Properties of WooCommerceClient.syncProducts                            *)

\* the SKUs of a product handed to WooCommerceClient.syncProducts
WooSkusOf(product) ==
  IF "variations" \in DOMAIN product
    THEN {product.variations[j].sku : j \in 1..Len(product.variations)}
  ELSE IF product.sku = None THEN {} ELSE {Val(product.sku)}

\* C21: syncProducts never creates a product that exists remotely. A product
\* one of whose SKUs the store holds is not passed to createProduct and,
\* once syncProducts has returned, is counted as updated; a product is
\* created only when the store holds none of its SKUs.
C21_NeverCreatesExisting ==
  /\ \A i \in 1..Len(calls) :
       calls[i].op \in {"createParent", "createSingle", "batchCreate"} =>
         WooSkusOf(products[calls[i].p]) \cap DOMAIN remote = {}
  /\ pc = "resolved" =>
       \A p \in 1..Len(products) :
         WooSkusOf(products[p]) \cap DOMAIN remote # {} =>
           (tasks[p].path = "update" /\ tasks[p].state = "fulfilled")

\* C30: when createProduct has returned successfully for a variable product
\* with at least one variation, exactly one batch request carrying all its
\* variations was sent and answered; it never returns successfully after
\* creating the parent only.
C30_NoSuccessAfterParentOnly ==
  \A p \in 1..Len(tasks) :
    (tasks[p].path = "create" /\ tasks[p].state = "fulfilled" /\ IsTwoStep(products[p])) =>
      /\ Cardinality(CallsOf(p, {"batchCreate"})) = 1
      /\ \A i \in CallsOf(p, {"batchCreate"}) :
           calls[i].variations = products[p].variations /\ i \notin open

-----------------------------------------------------------------------------
(* Further properties of the adapters                                      *)

\* C22: WooAdapter.toPlatform is total over the number of variants. A
\* canonical product that does not have exactly one variant, zero variants
\* included, is written without throwing as a 'variable' product with one
\* variation per canonical variant, in the same order.
C22_WooToPlatformTotal ==
  (trace # <<>> /\ Last(trace).op = "to" /\ Last(trace).a = "woo" /\ Len(Val(canon).variants) # 1) =>
    /\ Last(trace).res = "ok"
    /\ wire # None
    /\ Val(wire).rec.type = "variable"
    /\ Len(Val(wire).rec.variations) = Len(Val(canon).variants)
    /\ \A i \in 1..Len(Val(canon).variants) :
         /\ Val(wire).rec.variations[i].sku = Val(canon).variants[i].sku
         /\ FindMeta(Val(wire).rec.variations[i].meta_data, "_canonicalId") = Some(Val(canon).variants[i].canonicalId)

\* C23: EbayAdapter.toPlatform emits a single inventory item (condition
\* 'NEW', no price, no offer) if and only if the canonical product has
\* exactly one variant; with more than one variant it emits an item group
\* with one offer per variant, in order, the SKU of each offer being the
\* variant's sku + '::meta=' + JSON of {canonicalId, title, meta}, and
\* variantSKUs being the offers' SKUs. fromPlatform reads a record as a
\* group exactly when it has the field inventoryItemGroupKey.
C23_EbayShape ==
  /\ LastTo("ebay") =>
       LET p == Val(canon)
           rec == Val(wire).rec
           n == Len(p.variants)
       IN /\ n = 1 <=> "inventoryItemGroupKey" \notin DOMAIN rec
          /\ n = 1 =>
               /\ rec.sku = p.variants[1].sku
               /\ rec.condition = "NEW"
               /\ DOMAIN rec \cap {"price", "pricingSummary", "offers", "variantSKUs"} = {}
          /\ n # 1 =>
               /\ Len(rec.offers) = n
               /\ Len(rec.variantSKUs) = n
               /\ \A i \in 1..n :
                    /\ rec.offers[i].sku =
                         p.variants[i].sku \o META_SEPARATOR
                           \o JsonStringify([canonicalId |-> p.variants[i].canonicalId,
                                             title |-> p.variants[i].title,
                                             meta |-> p.variants[i].meta])
                    /\ rec.variantSKUs[i] = rec.offers[i].sku
  /\ (LastFrom("ebay") /\ wire # None /\ Val(wire).plat = "ebay") =>
       LET p == Val(canon)
           rec == Val(wire).rec
       IN IF "inventoryItemGroupKey" \in DOMAIN rec
            THEN p.id = rec.inventoryItemGroupKey /\ Len(p.variants) = Len(rec.offers)
          ELSE p.id = rec.sku /\ Len(p.variants) = 1 /\ p.variants[1].price = 0

C23_Witness ==
  /\ LastTo("ebay")
  /\ Len(Val(canon).variants) = 2
  /\ Len(Val(wire).rec.offers) = 2
  /\ Len(trace) >= 3
  /\ trace[Len(trace) - 1].op = "from"
  /\ trace[Len(trace) - 1].a = "ebay"
  /\ trace[Len(trace) - 1].shape = "group"

\* the value of the variant's attribute of a name, if it has one
AttributeNamed(v, name) ==
  LET attrs == IF IsSome(v.attributes) THEN Val(v.attributes) ELSE <<>>
      hits == {k \in 1..Len(attrs) : attrs[k].name = name}
  IN IF hits = {} THEN None ELSE Some(attrs[Min(hits)].value)

\* C24: ShopifyAdapter maps attributes to option1..option3 by option name.
\* For a product with one to three declared options, slot i written by
\* toPlatform carries the value of the variant's attribute named after the
\* i-th declared option, and toPlatform followed by fromPlatform gives every
\* variant its attribute list back.
C24_ShopifyOptionSlots ==
  /\ (LastTo("shopify") /\ IsSome(Val(canon).options)) =>
       \A j \in 1..Len(Val(canon).variants) :
         \A i \in 1..Len(Val(Val(canon).options)) :
           i <= 3 =>
             ShopifyOption(Val(wire).rec.variants[j], i)
               = AttributeNamed(Val(canon).variants[j], Val(Val(canon).options)[i].name)
  /\ (LastFrom("shopify") /\ Len(trace) >= 2 /\ Len(hist) >= 2) =>
       LET before == hist[Len(hist) - 1]
           prev == trace[Len(trace) - 1]
       IN (prev.op = "to" /\ prev.a = "shopify" /\ prev.res = "ok" /\ IsSome(before.options)) =>
            \A j \in 1..Len(before.variants) :
              Val(canon).variants[j].attributes = before.variants[j].attributes

\* the last two steps were toPlatform and fromPlatform of adapter a
RoundTripOf(a) ==
  /\ LastFrom(a)
  /\ Len(trace) >= 2
  /\ Len(hist) >= 2
  /\ trace[Len(trace) - 1].op = "to"
  /\ trace[Len(trace) - 1].a = a
  /\ trace[Len(trace) - 1].res = "ok"

\* C27: untracked stock survives WooCommerce. After WooAdapter.toPlatform
\* and WooAdapter.fromPlatform, in either shape, a variant that had
\* inventory null and manageStock absent or false has inventory null again,
\* and a variant that had manageStock true and inventory 0 has inventory 0.
C27_UntrackedStockSurvives ==
  RoundTripOf("woo") =>
    LET before == hist[Len(hist) - 1].variants
        after == Val(canon).variants
    IN /\ Len(after) = Len(before)
       /\ \A j \in 1..Len(before) :
            /\ (before[j].inventory = None /\ before[j].manageStock # Some(TRUE)) => after[j].inventory = None
            /\ (before[j].inventory = Some(0) /\ before[j].manageStock = Some(TRUE)) => after[j].inventory = Some(0)

\* the last two steps were fromPlatform and toPlatform of adapter a
ReadThenWritten(a) ==
  /\ LastTo(a)
  /\ Len(trace) >= 2
  /\ trace[Len(trace) - 1].op = "from"
  /\ trace[Len(trace) - 1].a = a
  /\ trace[Len(trace) - 1].res = "ok"

\* C28: the product status survives a same-platform round trip. A
\* WooCommerce record of status 'publish', which fromPlatform reads as the
\* canonical status 'publish', is written back by toPlatform with status
\* 'publish'; a Shopify record of status 'active', read as 'active', is
\* written back with status 'active'.
C28_StatusSurvives ==
  /\ (ReadThenWritten("woo") /\ Val(canon).status = Some("publish")) => Val(wire).rec.status = "publish"
  /\ (ReadThenWritten("shopify") /\ Val(canon).status = Some("active")) => Val(wire).rec.status = Some("active")

\* C29: in every canonical product returned by an adapter's fromPlatform
\* the canonicalIds of the variants are non-empty and pairwise distinct,
\* also when a canonicalId falls back to the SKU and the SKUs of the record
\* are empty or repeated.
C29_CanonicalIdsDistinct ==
  (trace # <<>> /\ Last(trace).op = "from" /\ Last(trace).res = "ok") =>
    LET vs == Val(canon).variants IN
    /\ \A i \in 1..Len(vs) : vs[i].canonicalId # EmptyStr
    /\ \A i, j \in 1..Len(vs) : i # j => vs[i].canonicalId # vs[j].canonicalId
====
